---- MODULE Spec2Model ----
(***************************************************************************)
(* Quota acquisition and normalisation (components/quota/quotaConfigs.ts). *)
(*                                                                         *)
(* One fetch of one provider config is modelled at a time: `config` names  *)
(* the QuotaConfig whose fetchQuota is running, `pc` the position of that  *)
(* fetch.  Every `await apiCallApi.request(...)` is a separate step: the   *)
(* request is issued by one action and its outcome (a response, or a       *)
(* thrown failure) is consumed by another.  So is the credential download  *)
(* of resolveAntigravityProjectId.  The quota store (useQuotaStore) is     *)
(* followed on its own, call by call, in StoreSpec.                        *)
(*                                                                         *)
(* JSON values are tagged records: Undef, Null, Num(n), Str(s), Bool(b),   *)
(* Obj(kind).  Fractions are integers in hundredths (100 = 1.0).           *)
(***************************************************************************)
EXTENDS Integers, Sequences, FiniteSets, TLC

VARIABLES
    config,          \* QuotaConfig.type of the fetch being run
    file,            \* the AuthFileItem handed to fetchQuota
    pc,              \* "idle" | "downloading" | "resolving" | "resolved" | "sending" | "awaiting" | "returned" | "thrown"
    urlIdx,          \* fetchAntigravityQuota: index into ANTIGRAVITY_QUOTA_URLS (1-based)
    attempt,         \* fetchAntigravityQuota: index into requestBodies (0-based)
    lastError,       \* fetchAntigravityQuota: let lastError
    lastStatus,      \* fetchAntigravityQuota: let lastStatus   (NoStatus = undefined)
    priorityStatus,  \* fetchAntigravityQuota: let priorityStatus
    hadSuccess,      \* fetchAntigravityQuota: let hadSuccess
    requestLog,      \* every request handed to apiCallApi.request, in order
    statusLog,       \* per completed request: the HTTP status it showed (NoStatus if none)
    lastOutcome,     \* the outcome of the latest completed request, with its url and body
    anyRejected,     \* whether some request so far was rejected (threw) instead of resolving
    result,          \* the value the fetch resolved with
    error,           \* the error the fetch rejected with
    quotaState,      \* the state built for the entry by the config's build*State
    downloadLog,     \* every name handed to authFilesApi.downloadText, in order
    credential,      \* resolveAntigravityProjectId: what downloadText settled with
    resolution,      \* what the promise of resolveAntigravityProjectId resolved with ("" while pending)
    projectId,       \* fetchAntigravityQuota: const projectId
    parsedBuckets,   \* fetchGeminiCliQuota: const parsedBuckets, the list handed to the builder
    store,           \* useQuotaStore: the five provider mappings
    lastCall,        \* the latest call of a store function, with its argument
    calls            \* number of store calls so far

\* the variables of a fetch, the variables of the store
fetchVars == <<config, file, pc, urlIdx, attempt, lastError, lastStatus, priorityStatus,
               hadSuccess, requestLog, statusLog, lastOutcome, anyRejected, result, error,
               quotaState, downloadLog, credential, resolution, projectId,
               parsedBuckets>>
storeVars == <<store, lastCall, calls>>

vars == <<fetchVars, storeVars>>

\* the locals of fetchAntigravityQuota's loop
loopVars == <<urlIdx, attempt, lastError, lastStatus, priorityStatus, hadSuccess>>

----------------------------------------------------------------------------
(* Bounds of the model *)

\* number of entries of ANTIGRAVITY_QUOTA_URLS (the list itself is imported)
NumUrls == 2

\* number of store calls followed
MaxCalls == 3

----------------------------------------------------------------------------
(* JSON values and the nullish operators *)

Undef == [t |-> "undefined"]
Null == [t |-> "null"]
Num(n) == [t |-> "number", n |-> n]
Str(s) == [t |-> "string", s |-> s]
Bool(b) == [t |-> "boolean", b |-> b]

IsNullish(v) == v.t \in {"undefined", "null"}

\* a ?? b
Coalesce(a, b) == IF IsNullish(a) THEN b ELSE a

\* `undefined` for an optional number
NoStatus == 0

----------------------------------------------------------------------------
(* Translation: t(key) is an opaque lookup; distinct keys give distinct texts *)

T(key) ==
    CASE key = "antigravity_quota.missing_auth_index" -> "Missing auth index (antigravity)"
      [] key = "codex_quota.missing_auth_index" -> "Missing auth index (codex)"
      [] key = "codex_quota.missing_account_id" -> "Missing ChatGPT account id"
      [] key = "codex_quota.empty_windows" -> "No usage windows"
      [] key = "codex_quota.primary_window" -> "5-hour limit"
      [] key = "codex_quota.secondary_window" -> "Weekly limit"
      [] key = "codex_quota.code_review_window" -> "Code review limit"
      [] key = "gemini_cli_quota.missing_auth_index" -> "Missing auth index (gemini-cli)"
      [] key = "gemini_cli_quota.missing_project_id" -> "Missing project id"
      [] key = "github_copilot_quota.missing_auth_index" -> "Missing auth index (github-copilot)"
      [] key = "github_copilot_quota.invalid_response" -> "Invalid response"
      [] key = "antigravity_quota.empty_models" -> "No models available"
      [] key = "common.unknown_error" -> "Unknown error"
      [] OTHER -> key

----------------------------------------------------------------------------
(* fetchAntigravityQuota *)

\* requestBodies = [JSON.stringify({ projectId }), JSON.stringify({ project: projectId })]
RequestBodies == <<"projectId", "project">>

\* Error messages a non-2xx response can carry (getApiCallErrorMessage(result)).
MsgUnknownField == "Unknown name \"projectId\": Cannot find field."
MsgUnknownNameOnly == "Unknown name \"projectId\" at 'request'"
MsgForbidden == "Permission denied"

\* String.prototype.toLowerCase on the messages above
ToLowerCase(s) ==
    CASE s = MsgUnknownField -> "unknown name \"projectid\": cannot find field."
      [] s = MsgUnknownNameOnly -> "unknown name \"projectid\" at 'request'"
      [] s = MsgForbidden -> "permission denied"
      [] OTHER -> s

\* String.prototype.includes on the lower-cased messages above
Includes(s, needle) ==
    CASE needle = "unknown name" ->
            s \in {"unknown name \"projectid\": cannot find field.",
                   "unknown name \"projectid\" at 'request'"}
      [] needle = "cannot find field" ->
            s \in {"unknown name \"projectid\": cannot find field."}
      [] OTHER -> FALSE

isAntigravityUnknownFieldError(message) ==
    LET normalized == ToLowerCase(message)
    IN  Includes(normalized, "unknown name") /\ Includes(normalized, "cannot find field")

\* payload?.models of a 2xx response.  `names` are the keys (or elements) it holds;
\* type "throws" stands for a body on which parsing raises.
Models(type, names) == [type |-> type, names |-> names]
ModelsValues ==
    { Models("undefined", {}), Models("null", {}), Models("string", {}),
      Models("array", {}), Models("array", {"claude"}),
      Models("object", {}), Models("object", {"unlisted"}),
      Models("object", {"claude"}), Models("object", {"gemini", "unlisted"}),
      Models("throws", {}) }

\* What apiCallApi.request resolves with
Responses ==
    [kind : {"response"}, statusCode : {400}, message : {MsgUnknownField, MsgUnknownNameOnly, MsgForbidden},
     models : {Models("undefined", {})}]
    \cup [kind : {"response"}, statusCode : {403}, message : {MsgUnknownField, MsgForbidden},
          models : {Models("undefined", {})}]
    \cup [kind : {"response"}, statusCode : {404, 500}, message : {MsgForbidden},
          models : {Models("undefined", {})}]
    \cup [kind : {"response"}, statusCode : {200}, message : {""}, models : ModelsValues]

\* What apiCallApi.request rejects with: an Error (or not) with a message and,
\* possibly, a status that getStatusFromError finds.
Failures ==
    { [kind |-> "failure", isError |-> TRUE, message |-> "Network Error", status |-> NoStatus],
      [kind |-> "failure", isError |-> TRUE, message |-> "", status |-> NoStatus],
      [kind |-> "failure", isError |-> FALSE, message |-> "", status |-> NoStatus],
      [kind |-> "failure", isError |-> TRUE, message |-> "Request failed (403)", status |-> 403],
      [kind |-> "failure", isError |-> TRUE, message |-> "Request failed (404)", status |-> 404],
      [kind |-> "failure", isError |-> TRUE, message |-> "Request failed (500)", status |-> 500] }

NoOutcome == [url |-> 0, body |-> 0, outcome |-> [kind |-> "none"]]
NoResult == [tag |-> "none"]
NoError == [tag |-> "none"]
Resolved(value) == [tag |-> "value", value |-> value]
Rejected(message, status) == [tag |-> "error", message |-> message, status |-> status]

\* createStatusError(message, status): an Error carrying the status
createStatusError(message, status) == Rejected(message, status)
\* new Error(message)
NewError(message) == Rejected(message, NoStatus)
\* getStatusFromError(err)
getStatusFromError(err) == err.status

\* buildAntigravityQuotaGroups(models): one group per model family it knows,
\* in a fixed order; models it does not list give no group.
GroupOrder == <<"claude", "gemini">>
buildAntigravityQuotaGroups(models) ==
    SelectSeq(GroupOrder, LAMBDA g : g \in models.names)

\* statusCode < 200 || statusCode >= 300
IsNon2xx(statusCode) == statusCode < 200 \/ statusCode >= 300

\* priorityStatus ??= status, under `status === 403 || status === 404`
NextPriority_LastWins(prio, status) ==
    IF status = 403 \/ status = 404 THEN status ELSE prio

NextPriority_Only404(prio, status) ==
    IF status = 404 THEN (IF prio = NoStatus THEN status ELSE prio) ELSE prio

NextPriority(prio, status) ==
    IF status = 403 \/ status = 404
    THEN (IF prio = NoStatus THEN status ELSE prio)
    ELSE prio

\* the `continue` test of a non-2xx response
RetriesNextBody_NoStatusTest(statusCode, message, att) ==
    /\ isAntigravityUnknownFieldError(message)
    /\ att < Len(RequestBodies) - 1

RetriesNextBody(statusCode, message, att) ==
    /\ statusCode = 400
    /\ isAntigravityUnknownFieldError(message)
    /\ att < Len(RequestBodies) - 1

\* the negation of `!models || typeof models !== 'object' || Array.isArray(models)`
ModelsUsable_NoArrayTest(models) ==
    ~ ( \/ models.type \in {"undefined", "null"}
        \/ models.type \notin {"object", "array", "null"} )

ModelsUsable(models) ==
    ~ ( \/ models.type \in {"undefined", "null"}
        \/ models.type \notin {"object", "array", "null"}
        \/ models.type = "array" )

\* lastError || t('common.unknown_error')
FinalMessage(le) == IF le = "" THEN T("common.unknown_error") ELSE le

\* priorityStatus ?? lastStatus
FinalStatus(prio, last) == IF prio # NoStatus THEN prio ELSE last

\* if (hadSuccess) return []; throw createStatusError(...)
AfterLoop_AlwaysThrows(le, ls, ps, hs) ==
    /\ pc' = "thrown"
    /\ error' = createStatusError(FinalMessage(le), FinalStatus(ps, ls))
    /\ UNCHANGED result

AfterLoop(le, ls, ps, hs) ==
    IF hs
    THEN /\ pc' = "returned"
         /\ result' = Resolved(<<>>)
         /\ UNCHANGED error
    ELSE /\ pc' = "thrown"
         /\ error' = createStatusError(FinalMessage(le), FinalStatus(ps, ls))
         /\ UNCHANGED result

\* as GoOn, with the body index kept when the loop moves to the next url
GoOn_KeepsBodyIndex(flow, le, ls, ps, hs) ==
    LET sameUrl == flow = "continue" /\ attempt + 1 < Len(RequestBodies)
        nextUrl == IF sameUrl THEN urlIdx ELSE urlIdx + 1
        nextAttempt == IF sameUrl THEN attempt + 1 ELSE attempt
    IN  /\ lastError' = le
        /\ lastStatus' = ls
        /\ priorityStatus' = ps
        /\ hadSuccess' = hs
        /\ IF nextUrl <= NumUrls
           THEN /\ urlIdx' = nextUrl
                /\ attempt' = nextAttempt
                /\ pc' = "sending"
                /\ UNCHANGED <<result, error>>
           ELSE /\ UNCHANGED <<urlIdx, attempt>>
                /\ AfterLoop(le, ls, ps, hs)

\* The loop headers: `continue` goes to the next body of the same url, or, after
\* the last body, to the first body of the next url; `break` goes to the first
\* body of the next url; after the last url the loop is left.
GoOn(flow, le, ls, ps, hs) ==
    LET sameUrl == flow = "continue" /\ attempt + 1 < Len(RequestBodies)
        nextUrl == IF sameUrl THEN urlIdx ELSE urlIdx + 1
        nextAttempt == IF sameUrl THEN attempt + 1 ELSE 0
    IN  /\ lastError' = le
        /\ lastStatus' = ls
        /\ priorityStatus' = ps
        /\ hadSuccess' = hs
        /\ IF nextUrl <= NumUrls
           THEN /\ urlIdx' = nextUrl
                /\ attempt' = nextAttempt
                /\ pc' = "sending"
                /\ UNCHANGED <<result, error>>
           ELSE /\ UNCHANGED <<urlIdx, attempt>>
                /\ AfterLoop(le, ls, ps, hs)

\* The outcome as recorded for the checks: where the request went and what came back.
Recorded(o) == [url |-> urlIdx, body |-> attempt, outcome |-> o]

\* normalizeAuthIndexValue(file['auth_index'] ?? file.authIndex): text or null
normalizeAuthIndexValue(v) ==
    IF v.t = "string" /\ v.s # "" THEN v.s
    ELSE IF v.t = "number" THEN "n"
    ELSE ""

AuthIndexOf(f) == normalizeAuthIndexValue(Coalesce(f.auth_index, f.authIndex))

----------------------------------------------------------------------------
(* resolveAntigravityProjectId *)

\* String.prototype.trim on the strings the model draws
Trim(str) ==
    CASE str = "  " -> ""
      [] str = " 40 " -> "40"
      [] str = " proj-1 " -> "proj-1"
      [] OTHER -> str

\* normalizeStringValue(value): a non-blank string trimmed, anything else null
normalizeStringValue(v) ==
    IF v.t = "string" /\ Trim(v.s) # "" THEN Str(Trim(v.s)) ELSE Null

DEFAULT_ANTIGRAVITY_PROJECT_ID == "bamboo-precept-lgxtn"

\* the credential texts drawn
TextBlank == "  "
TextNotJson == "{not json"
TextNull == "null"
\* (the id to be found is proj-1; proj-2 stands in a field that comes later)
TextTopLevel == "{\"project_id\":\"proj-1\",\"installed\":{\"project_id\":\"proj-2\"}}"
TextTopCamel == "{\"projectId\":\" proj-1 \"}"
TextInstalled ==
    "{\"project_id\":\"  \",\"installed\":{\"project_id\":\"proj-1\"},\"web\":{\"project_id\":\"proj-2\"}}"
TextInstalledCamel == "{\"installed\":{\"projectId\":\"proj-1\"}}"
TextWeb == "{\"installed\":\"none\",\"web\":{\"project_id\":\"proj-1\"}}"
TextNoProject == "{\"installed\":{},\"web\":{\"project_id\":7}}"

\* a parsed credential object and one of its sections: the keys the resolution reads
CredentialSection(pid, pidCamel) == [t |-> "object", project_id |-> pid, projectId |-> pidCamel]
CredentialObject(pid, pidCamel, installed, web) ==
    [t |-> "object", project_id |-> pid, projectId |-> pidCamel,
     installed |-> installed, web |-> web]

\* JSON.parse on the texts above; [t |-> "throws"] where it raises
JsonParse(text) ==
    CASE text = TextNull -> Null
      [] text = TextTopLevel ->
            CredentialObject(Str("proj-1"), Undef, CredentialSection(Str("proj-2"), Undef), Undef)
      [] text = TextTopCamel -> CredentialObject(Undef, Str(" proj-1 "), Undef, Undef)
      [] text = TextInstalled ->
            CredentialObject(Str("  "), Undef, CredentialSection(Str("proj-1"), Undef),
                             CredentialSection(Str("proj-2"), Undef))
      [] text = TextInstalledCamel ->
            CredentialObject(Undef, Undef, CredentialSection(Undef, Str("proj-1")), Undef)
      [] text = TextWeb ->
            CredentialObject(Undef, Undef, Str("none"), CredentialSection(Str("proj-1"), Undef))
      [] text = TextNoProject ->
            CredentialObject(Undef, Undef, CredentialSection(Undef, Undef),
                             CredentialSection(Num(7), Undef))
      [] OTHER -> [t |-> "throws"]

\* what authFilesApi.downloadText settles with: a text, or a rejection
NoDownload == [kind |-> "none"]
Downloads ==
    {[kind |-> "failure"]}
    \cup {[kind |-> "text", text |-> x] :
            x \in {TextBlank, TextNotJson, TextNull, TextTopLevel, TextTopCamel, TextInstalled,
                   TextInstalledCamel, TextWeb, TextNoProject}}

\* parsed.section && typeof parsed.section === 'object' ? parsed.section : null
SectionOf(value) == IF value.t = "object" THEN value ELSE Null

\* normalizeStringValue(section.project_id ?? section.projectId), null without a section
SectionProjectId(section) ==
    IF section = Null THEN Null
    ELSE normalizeStringValue(Coalesce(section.project_id, section.projectId))

\* as resolveAntigravityProjectId, reading the top-level fields only
resolveAntigravityProjectId_TopLevelOnly(download) ==
    IF download.kind = "failure" THEN DEFAULT_ANTIGRAVITY_PROJECT_ID
    ELSE LET trimmed == Trim(download.text)
             parsed == JsonParse(trimmed)
         IN  IF trimmed = "" \/ parsed.t # "object" THEN DEFAULT_ANTIGRAVITY_PROJECT_ID
             ELSE LET topLevel ==
                          normalizeStringValue(Coalesce(parsed.project_id, parsed.projectId))
                  IN  IF topLevel # Null THEN topLevel.s
                      ELSE DEFAULT_ANTIGRAVITY_PROJECT_ID

resolveAntigravityProjectId(download) ==
    IF download.kind = "failure" THEN DEFAULT_ANTIGRAVITY_PROJECT_ID
    ELSE LET trimmed == Trim(download.text)
             parsed == JsonParse(trimmed)
         IN  IF trimmed = "" THEN DEFAULT_ANTIGRAVITY_PROJECT_ID
             ELSE IF parsed.t = "throws" THEN DEFAULT_ANTIGRAVITY_PROJECT_ID
             ELSE IF parsed.t # "object"
             THEN \* reading a property of null raises: the catch block
                  DEFAULT_ANTIGRAVITY_PROJECT_ID
             ELSE LET topLevel ==
                          normalizeStringValue(Coalesce(parsed.project_id, parsed.projectId))
                      installedProjectId == SectionProjectId(SectionOf(parsed.installed))
                      webProjectId == SectionProjectId(SectionOf(parsed.web))
                  IN  IF topLevel # Null THEN topLevel.s
                      ELSE IF installedProjectId # Null THEN installedProjectId.s
                      ELSE IF webProjectId # Null THEN webProjectId.s
                      ELSE DEFAULT_ANTIGRAVITY_PROJECT_ID

\* as AntigravityStart, with the download started before the auth index is tested
AntigravityStart_DownloadsFirst ==
    /\ config = "antigravity"
    /\ pc = "idle"
    /\ quotaState.status = "loading"
    /\ downloadLog' = Append(downloadLog, file.name)
    /\ IF AuthIndexOf(file) = ""
       THEN /\ pc' = "thrown"
            /\ error' = NewError(T("antigravity_quota.missing_auth_index"))
       ELSE /\ pc' = "downloading"
            /\ UNCHANGED error
    /\ UNCHANGED <<credential, projectId, resolution, parsedBuckets, storeVars, config, file, quotaState, loopVars, requestLog,
                   statusLog, lastOutcome, anyRejected, result>>

\* fetchAntigravityQuota up to the loop: the auth index test
AntigravityStart ==
    /\ config = "antigravity"
    /\ pc = "idle"
    /\ quotaState.status = "loading"
    /\ IF AuthIndexOf(file) = ""
       THEN /\ pc' = "thrown"
            /\ error' = NewError(T("antigravity_quota.missing_auth_index"))
            /\ UNCHANGED downloadLog
       ELSE /\ pc' = "downloading"
            /\ downloadLog' = Append(downloadLog, file.name)
            /\ UNCHANGED error
    /\ UNCHANGED <<credential, projectId, resolution, parsedBuckets, storeVars, config, file, quotaState, loopVars, requestLog,
                   statusLog, lastOutcome, anyRejected, result>>

\* authFilesApi.downloadText(file.name) settles: it resolves with a text or rejects
AntigravityDownload ==
    /\ config = "antigravity"
    /\ pc = "downloading"
    /\ credential' \in Downloads
    /\ pc' = "resolving"
    /\ UNCHANGED <<downloadLog, projectId, resolution, parsedBuckets, storeVars, config, file, quotaState, loopVars, requestLog,
                   statusLog, lastOutcome, anyRejected, result, error>>

\* resolveAntigravityProjectId runs on from its await and returns: its promise
\* resolves with the id, its locals are gone afterwards
AntigravityResolve ==
    /\ config = "antigravity"
    /\ pc = "resolving"
    /\ resolution' = resolveAntigravityProjectId(credential)
    /\ credential' = NoDownload
    /\ pc' = "resolved"
    /\ UNCHANGED <<downloadLog, projectId, parsedBuckets, storeVars, config, file, quotaState,
                   loopVars, requestLog, statusLog, lastOutcome, anyRejected, result, error>>

\* fetchAntigravityQuota runs on from its await: const projectId, the request bodies
\* and the locals of the loop
AntigravityResume ==
    /\ config = "antigravity"
    /\ pc = "resolved"
    /\ projectId' = resolution
    /\ urlIdx' = 1
    /\ attempt' = 0
    /\ lastError' = ""
    /\ lastStatus' = NoStatus
    /\ priorityStatus' = NoStatus
    /\ hadSuccess' = FALSE
    /\ pc' = "sending"
    /\ UNCHANGED <<downloadLog, credential, resolution, parsedBuckets, storeVars, config, file,
                   quotaState, requestLog, statusLog, lastOutcome, anyRejected, result, error>>

\* await apiCallApi.request({ authIndex, method: 'POST', url, data: requestBodies[attempt] })
AntigravitySend ==
    /\ config = "antigravity"
    /\ pc = "sending"
    /\ pc' = "awaiting"
    /\ requestLog' = Append(requestLog, [url |-> urlIdx, body |-> RequestBodies[attempt + 1]])
    /\ UNCHANGED <<downloadLog, credential, projectId, resolution, parsedBuckets, storeVars, config, file, quotaState, urlIdx, attempt, lastError, lastStatus, priorityStatus,
                   hadSuccess, statusLog, lastOutcome, anyRejected, result, error>>

\* the request resolved with a non-2xx status
AntigravityErrorResponse(r) ==
    /\ config = "antigravity"
    /\ pc = "awaiting"
    /\ IsNon2xx(r.statusCode)
    /\ statusLog' = Append(statusLog, r.statusCode)
    /\ lastOutcome' = Recorded(r)
    /\ GoOn(IF RetriesNextBody(r.statusCode, r.message, attempt) THEN "continue" ELSE "break",
            r.message, r.statusCode, NextPriority(priorityStatus, r.statusCode), hadSuccess)
    /\ UNCHANGED <<downloadLog, credential, projectId, resolution, parsedBuckets, storeVars, config, file, quotaState, requestLog, anyRejected>>

\* as AntigravityOkResponse, but a non-empty group list is kept and the loop goes on
AntigravityOkResponse_KeepsGoing(r) ==
    /\ config = "antigravity"
    /\ pc = "awaiting"
    /\ ~IsNon2xx(r.statusCode)
    /\ statusLog' = Append(statusLog, r.statusCode)
    /\ lastOutcome' = Recorded(r)
    /\ IF r.models.type = "throws"
       THEN GoOn("continue", "Unexpected token", lastStatus, priorityStatus, TRUE)
       ELSE IF ~ModelsUsable(r.models)
       THEN GoOn("continue", T("antigravity_quota.empty_models"), lastStatus, priorityStatus, TRUE)
       ELSE GoOn("continue", T("antigravity_quota.empty_models"), lastStatus, priorityStatus, TRUE)
    /\ UNCHANGED <<downloadLog, credential, projectId, resolution, parsedBuckets, storeVars, config, file, quotaState, requestLog, anyRejected>>

\* the request resolved with a 2xx status
AntigravityOkResponse(r) ==
    /\ config = "antigravity"
    /\ pc = "awaiting"
    /\ ~IsNon2xx(r.statusCode)
    /\ statusLog' = Append(statusLog, r.statusCode)
    /\ lastOutcome' = Recorded(r)
    /\ IF r.models.type = "throws"
       THEN \* parsing raised after hadSuccess was set: the catch block
            GoOn("continue", "Unexpected token", lastStatus, priorityStatus, TRUE)
       ELSE IF ~ModelsUsable(r.models)
       THEN GoOn("continue", T("antigravity_quota.empty_models"), lastStatus, priorityStatus, TRUE)
       ELSE IF Len(buildAntigravityQuotaGroups(r.models)) = 0
       THEN GoOn("continue", T("antigravity_quota.empty_models"), lastStatus, priorityStatus, TRUE)
       ELSE /\ pc' = "returned"
            /\ result' = Resolved(buildAntigravityQuotaGroups(r.models))
            /\ hadSuccess' = TRUE
            /\ UNCHANGED <<urlIdx, attempt, lastError, lastStatus, priorityStatus, error>>
    /\ UNCHANGED <<downloadLog, credential, projectId, resolution, parsedBuckets, storeVars, config, file, quotaState, requestLog, anyRejected>>

\* as AntigravityFailure, with the catch block leaving the inner loop
AntigravityFailure_Breaks(e) ==
    /\ config = "antigravity"
    /\ pc = "awaiting"
    /\ statusLog' = Append(statusLog, e.status)
    /\ lastOutcome' = Recorded(e)
    /\ LET status == getStatusFromError(e)
       IN  GoOn("break",
                IF e.isError THEN e.message ELSE T("common.unknown_error"),
                IF status # NoStatus THEN status ELSE lastStatus,
                IF status # NoStatus THEN NextPriority(priorityStatus, status) ELSE priorityStatus,
                hadSuccess)
    /\ anyRejected' = TRUE
    /\ UNCHANGED <<downloadLog, credential, projectId, resolution, parsedBuckets, storeVars, config, file, quotaState, requestLog>>

\* the request rejected: the catch block
AntigravityFailure(e) ==
    /\ config = "antigravity"
    /\ pc = "awaiting"
    /\ statusLog' = Append(statusLog, e.status)
    /\ lastOutcome' = Recorded(e)
    /\ LET status == getStatusFromError(e)
       IN  GoOn("continue",
                IF e.isError THEN e.message ELSE T("common.unknown_error"),
                IF status # NoStatus THEN status ELSE lastStatus,
                IF status # NoStatus THEN NextPriority(priorityStatus, status) ELSE priorityStatus,
                hadSuccess)
    /\ anyRejected' = TRUE
    /\ UNCHANGED <<downloadLog, credential, projectId, resolution, parsedBuckets, storeVars, config, file, quotaState, requestLog>>

----------------------------------------------------------------------------
(* Normalisation helpers (utils/quota) *)

\* Number(trimmed) for the strings the model draws; NotANumber for the others
NotANumber == [t |-> "NaN"]
ParseNumber(str) ==
    CASE str = "85" -> Num(85)
      [] str = " 40 " -> Num(40)
      [] str = "150" -> Num(150)
      [] str = "-5" -> Num(0 - 5)
      [] OTHER -> NotANumber

\* normalizeNumberValue(value): a finite number as it is, a numeric string parsed,
\* anything else null.  The number is not changed.
normalizeNumberValue(v) ==
    IF v.t = "number" THEN v
    ELSE IF v.t = "string" /\ ParseNumber(v.s).t = "number" THEN ParseNumber(v.s)
    ELSE Null

\* Boolean(value)
ToBoolean(v) ==
    CASE v.t \in {"undefined", "null"} -> FALSE
      [] v.t = "boolean" -> v.b
      [] v.t = "number" -> v.n # 0
      [] v.t = "string" -> v.s # ""
      [] OTHER -> TRUE

\* value.field of a value that is neither null nor undefined: a text, a number or a
\* boolean has none of the fields read here
Get(value, field) == IF value.t = "object" THEN value[field] ELSE Undef

\* obj?.field
OptGet(obj, field) == IF obj.t = "object" THEN obj[field] ELSE Undef

\* the parse*Payload functions: an object body is the payload, any other body gives null
ParsePayload(body) == IF body.t = "object" THEN body ELSE Null

\* normalizePlanType(value): the plan in lower case, null when there is none
normalizePlanType(v) ==
    IF v.t # "string" THEN Null
    ELSE IF v.s = "Plus" THEN Str("plus")
    ELSE IF Trim(v.s) = "" THEN Null
    ELSE Str(Trim(v.s))

----------------------------------------------------------------------------
(* fetchCodexQuota and buildCodexQuotaWindows *)

\* CodexUsageWindow
CodexWindow(up, upCamel, resetAt) ==
    [t |-> "object", used_percent |-> up, usedPercent |-> upCamel, reset_at |-> resetAt]

\* rate_limit / code_review_rate_limit
CodexRateLimit(pw, pwCamel, sw, swCamel, lr, lrCamel, al) ==
    [t |-> "object", primary_window |-> pw, primaryWindow |-> pwCamel,
     secondary_window |-> sw, secondaryWindow |-> swCamel,
     limit_reached |-> lr, limitReached |-> lrCamel, allowed |-> al]

\* CodexUsagePayload
CodexPayload(plan, planCamel, rl, rlCamel, cr, crCamel) ==
    [t |-> "object", plan_type |-> plan, planType |-> planCamel,
     rate_limit |-> rl, rateLimit |-> rlCamel,
     code_review_rate_limit |-> cr, codeReviewRateLimit |-> crCamel]

\* the values drawn for used_percent: absent, null, below, inside and above the
\* range, numeric and non-numeric text
PercentValues ==
    {Undef, Null, Num(0 - 5), Num(0), Num(40), Num(100), Num(150), Str("85"), Str("abc")}

ResetValues == {Undef, Num(3600)}

PrimaryWindows ==
    {CodexWindow(p, Undef, r) : p \in PercentValues, r \in ResetValues}
    \cup {CodexWindow(Undef, Num(40), Num(3600)), CodexWindow(Null, Num(150), Undef),
          CodexWindow(Num(0), Num(40), Undef)}
    \cup {Undef, Null, Str("soon"), Num(5), Num(0), Bool(TRUE)}

OtherWindows ==
    {Undef, CodexWindow(Undef, Undef, Num(3600)), CodexWindow(Num(150), Undef, Undef)}

FlagValues == {Undef, Bool(TRUE), Bool(FALSE)}

CodexRateLimits ==
    {CodexRateLimit(pw, Undef, sw, Undef, lr, Undef, al) :
        pw \in PrimaryWindows, sw \in OtherWindows, lr \in FlagValues, al \in FlagValues}
    \cup {CodexRateLimit(Undef, pw, Undef, sw, Null, Bool(TRUE), Undef) :
            pw \in {CodexWindow(Undef, Undef, Num(3600))}, sw \in OtherWindows}
    \cup {Undef}

CodexCodeReviewLimits ==
    {CodexRateLimit(pw, Undef, Undef, Undef, lr, Undef, al) :
        pw \in OtherWindows \ {Undef}, lr \in {Undef, Bool(TRUE)}, al \in {Undef, Bool(FALSE)}}
    \cup {Undef}

CodexPayloads ==
    {CodexPayload(Undef, Undef, rl, Undef, cr, Undef) :
        rl \in CodexRateLimits, cr \in CodexCodeReviewLimits}
    \cup {CodexPayload(plan, planCamel, Undef, rl, Undef, cr) :
            plan \in {Undef, Str("free")}, planCamel \in {Undef, Str("Plus")},
            rl \in {CodexRateLimit(CodexWindow(Num(40), Undef, Num(3600)), Undef, Undef, Undef,
                                   Undef, Undef, Undef)},
            cr \in {Undef, CodexRateLimit(CodexWindow(Undef, Undef, Num(3600)), Undef, Undef,
                                          Undef, Bool(TRUE), Undef, Undef)}}

\* formatCodexResetLabel(window): '-' when the window carries no reset time
formatCodexResetLabel(window) ==
    LET resetAt == normalizeNumberValue(Get(window, "reset_at"))
    IN  IF resetAt # Null /\ resetAt.n > 0 THEN "01/01 01:00" ELSE "-"

\* usedPercentRaw ?? (isLimitReached && resetLabel !== '-' ? 100 : null)
UsedPercentOf_NoLabelTest(usedPercentRaw, isLimitReached, resetLabel) ==
    IF usedPercentRaw # Null THEN usedPercentRaw
    ELSE IF isLimitReached THEN Num(100)
    ELSE Null

UsedPercentOf(usedPercentRaw, isLimitReached, resetLabel) ==
    IF usedPercentRaw # Null THEN usedPercentRaw
    ELSE IF isLimitReached /\ resetLabel # "-" THEN Num(100)
    ELSE Null

\* addWindow(id, labelKey, window, limitReached, allowed): the windows it pushes
addWindow(id, labelKey, window, limitReached, allowed) ==
    IF ~ToBoolean(window) THEN <<>>
    ELSE LET resetLabel == formatCodexResetLabel(window)
             usedPercentRaw ==
                 normalizeNumberValue(Coalesce(Get(window, "used_percent"),
                                               Get(window, "usedPercent")))
             isLimitReached == ToBoolean(limitReached) \/ allowed = Bool(FALSE)
         IN  << [id |-> id, label |-> T(labelKey), labelKey |-> labelKey,
                 usedPercent |-> UsedPercentOf(usedPercentRaw, isLimitReached, resetLabel),
                 resetLabel |-> resetLabel] >>

buildCodexQuotaWindows(payload) ==
    LET rateLimit == Coalesce(Coalesce(payload.rate_limit, payload.rateLimit), Undef)
        codeReviewLimit ==
            Coalesce(Coalesce(payload.code_review_rate_limit, payload.codeReviewRateLimit), Undef)
    IN  addWindow("primary", "codex_quota.primary_window",
                  Coalesce(OptGet(rateLimit, "primary_window"), OptGet(rateLimit, "primaryWindow")),
                  Coalesce(OptGet(rateLimit, "limit_reached"), OptGet(rateLimit, "limitReached")),
                  OptGet(rateLimit, "allowed"))
        \o addWindow("secondary", "codex_quota.secondary_window",
                  Coalesce(OptGet(rateLimit, "secondary_window"), OptGet(rateLimit, "secondaryWindow")),
                  Coalesce(OptGet(rateLimit, "limit_reached"), OptGet(rateLimit, "limitReached")),
                  OptGet(rateLimit, "allowed"))
        \o addWindow("code-review", "codex_quota.code_review_window",
                  Coalesce(OptGet(codeReviewLimit, "primary_window"),
                           OptGet(codeReviewLimit, "primaryWindow")),
                  Coalesce(OptGet(codeReviewLimit, "limit_reached"),
                           OptGet(codeReviewLimit, "limitReached")),
                  OptGet(codeReviewLimit, "allowed"))

\* what the usage endpoint answers
CodexResponses ==
    [kind : {"response"}, statusCode : {200}, message : {""},
     body : CodexPayloads \cup {Null, Str("<html>")}]
    \cup [kind : {"response"}, statusCode : {401, 500}, message : {MsgForbidden}, body : {Null}]

\* the one request of a single-request fetch
TheRequest(method) == [url |-> 1, body |-> method]

\* fetchCodexQuota up to its await: the auth index and account id tests, the request
CodexStart ==
    /\ config = "codex"
    /\ pc = "idle"
    /\ quotaState.status = "loading"
    /\ IF AuthIndexOf(file) = ""
       THEN /\ pc' = "thrown"
            /\ error' = NewError(T("codex_quota.missing_auth_index"))
            /\ UNCHANGED requestLog
       ELSE IF normalizeStringValue(file.account_id) = Null
       THEN /\ pc' = "thrown"
            /\ error' = NewError(T("codex_quota.missing_account_id"))
            /\ UNCHANGED requestLog
       ELSE /\ pc' = "awaiting"
            /\ requestLog' = Append(requestLog, TheRequest("GET"))
            /\ UNCHANGED error
    /\ UNCHANGED <<downloadLog, credential, projectId, resolution, parsedBuckets, storeVars, config, file, quotaState, loopVars, statusLog, lastOutcome, anyRejected, result>>

\* fetchCodexQuota after its await
CodexResponse(r) ==
    /\ config = "codex"
    /\ pc = "awaiting"
    /\ statusLog' = Append(statusLog, r.statusCode)
    /\ lastOutcome' = Recorded(r)
    /\ IF IsNon2xx(r.statusCode)
       THEN /\ pc' = "thrown"
            /\ error' = createStatusError(r.message, r.statusCode)
            /\ UNCHANGED result
       ELSE LET payload == ParsePayload(r.body)
            IN  IF payload = Null
                THEN /\ pc' = "thrown"
                     /\ error' = NewError(T("codex_quota.empty_windows"))
                     /\ UNCHANGED result
                ELSE LET planTypeFromUsage ==
                             normalizePlanType(Coalesce(payload.plan_type, payload.planType))
                         planTypeFromFile == normalizePlanType(file.plan_type)
                     IN  /\ pc' = "returned"
                         /\ result' = Resolved([planType |-> Coalesce(planTypeFromUsage,
                                                                      planTypeFromFile),
                                                windows |-> buildCodexQuotaWindows(payload)])
                         /\ UNCHANGED error
    /\ UNCHANGED <<downloadLog, credential, projectId, resolution, parsedBuckets, storeVars, config, file, quotaState, loopVars, requestLog, anyRejected>>

\* as RequestFailure, with the rejection caught and the request issued once more
RequestFailure_Retries(e) ==
    /\ config \in {"codex", "gemini-cli", "github-copilot"}
    /\ pc = "awaiting"
    /\ Len(requestLog) < 2
    /\ statusLog' = Append(statusLog, e.status)
    /\ lastOutcome' = Recorded(e)
    /\ anyRejected' = TRUE
    /\ requestLog' = Append(requestLog, requestLog[1])
    /\ UNCHANGED <<downloadLog, credential, projectId, resolution, parsedBuckets, storeVars, config, file, quotaState, loopVars,
                   pc, result, error>>

\* the awaited request of a single-request fetch rejected: the rejection propagates
RequestFailure(e) ==
    /\ config \in {"codex", "gemini-cli", "github-copilot"}
    /\ pc = "awaiting"
    /\ statusLog' = Append(statusLog, e.status)
    /\ lastOutcome' = Recorded(e)
    /\ anyRejected' = TRUE
    /\ pc' = "thrown"
    /\ error' = Rejected(e.message, e.status)
    /\ UNCHANGED <<downloadLog, credential, projectId, resolution, parsedBuckets, storeVars, config, file, quotaState, loopVars, requestLog, result>>

----------------------------------------------------------------------------
(* fetchGeminiCliQuota *)

\* longest `buckets` list drawn
MaxBuckets == 2

\* normalizeQuotaFraction(value), in hundredths: a number as it is, numeric text
\* parsed, "50%" as 0.5, anything else null.  The fraction is not changed.
normalizeQuotaFraction(v) ==
    IF normalizeNumberValue(v) # Null THEN normalizeNumberValue(v)
    ELSE IF v.t = "string" /\ v.s = "50%" THEN Num(50)
    ELSE Null

\* a raw bucket of the payload
GeminiBucket(modelId, fraction, fractionSnake, amount, resetTime) ==
    [t |-> "object", modelId |-> modelId, model_id |-> Undef,
     tokenType |-> Undef, token_type |-> Str("REQUESTS"),
     remainingFraction |-> fraction, remaining_fraction |-> fractionSnake,
     remainingAmount |-> amount, remaining_amount |-> Undef,
     resetTime |-> resetTime, reset_time |-> Undef]

FractionValues ==
    {Undef, Num(0 - 20), Num(0), Num(50), Num(100), Num(130), Str("50%"), Str("abc")}
AmountValues == {Undef, Num(0), Num(0 - 1), Num(7)}
ResetTimeValues == {Undef, Str("2025-01-01T00:00:00Z")}

FirstBuckets ==
    {GeminiBucket(Str("gemini-2.5-pro"), f, Undef, a, rt) :
        f \in FractionValues, a \in AmountValues, rt \in ResetTimeValues}
    \cup {GeminiBucket(Undef, Num(50), Undef, Undef, Undef),
          GeminiBucket(Str("gemini-2.5-pro"), Null, Num(130), Undef, Undef),
          [GeminiBucket(Undef, Undef, Undef, Undef, Undef) EXCEPT
              !.model_id = Str("gemini-2.5-flash"), !.remaining_amount = Str("-5"),
              !.reset_time = Str("2025-01-01T00:00:00Z")]}

MoreBuckets ==
    {GeminiBucket(Undef, Num(50), Undef, Undef, Undef),
     GeminiBucket(Str("gemini-2.5-flash"), Num(130), Undef, Undef, Undef),
     GeminiBucket(Str("gemini-2.5-flash"), Undef, Undef, Undef, Str("2025-01-01T00:00:00Z"))}

RECURSIVE BucketLists(_)
BucketLists(n) ==
    IF n = 0 THEN {<<>>}
    ELSE IF n = 1 THEN {<<b>> : b \in FirstBuckets}
    ELSE {Append(l, b) : l \in BucketLists(n - 1), b \in MoreBuckets}

GeminiPayloads ==
    {[t |-> "object", buckets |-> [t |-> "array", items |-> l]] :
        l \in UNION {BucketLists(n) : n \in 0..MaxBuckets}}
    \cup {[t |-> "object", buckets |-> Undef], [t |-> "object", buckets |-> Str("none")]}

GeminiResponses ==
    [kind : {"response"}, statusCode : {200}, message : {""},
     body : GeminiPayloads \cup {Null}]
    \cup [kind : {"response"}, statusCode : {403, 500}, message : {MsgForbidden}, body : {Null}]

\* as FallbackFraction, with the reset time tested before the remaining amount
FallbackFraction_ResetTimeFirst(remainingAmount, resetTime) ==
    IF ToBoolean(resetTime) THEN Num(0)
    ELSE IF remainingAmount # Null
    THEN (IF remainingAmount.n <= 0 THEN Num(0) ELSE Null)
    ELSE Null

\* the fallback fraction of a bucket without a direct fraction
FallbackFraction(remainingAmount, resetTime) ==
    IF remainingAmount # Null
    THEN (IF remainingAmount.n <= 0 THEN Num(0) ELSE Null)
    ELSE IF ToBoolean(resetTime) THEN Num(0)
    ELSE Null

\* the callback of buckets.map(...): null for a bucket without a model id
ParseGeminiBucket(bucket) ==
    LET modelId == normalizeStringValue(Coalesce(bucket.modelId, bucket.model_id))
        tokenType == normalizeStringValue(Coalesce(bucket.tokenType, bucket.token_type))
        remainingFractionRaw ==
            normalizeQuotaFraction(Coalesce(bucket.remainingFraction, bucket.remaining_fraction))
        remainingAmount ==
            normalizeNumberValue(Coalesce(bucket.remainingAmount, bucket.remaining_amount))
        resetTime ==
            Coalesce(normalizeStringValue(Coalesce(bucket.resetTime, bucket.reset_time)), Undef)
    IN  IF modelId = Null THEN Null
        ELSE [t |-> "object", modelId |-> modelId, tokenType |-> tokenType,
              remainingFraction |-> Coalesce(remainingFractionRaw,
                                             FallbackFraction(remainingAmount, resetTime)),
              remainingAmount |-> remainingAmount,
              resetTime |-> resetTime]

\* buckets.map(...).filter(bucket => bucket !== null)
RECURSIVE ParseGeminiBuckets(_)
ParseGeminiBuckets(items) ==
    IF items = <<>> THEN <<>>
    ELSE (IF ParseGeminiBucket(Head(items)) = Null THEN <<>>
          ELSE <<ParseGeminiBucket(Head(items))>>)
         \o ParseGeminiBuckets(Tail(items))

\* buildGeminiCliQuotaBuckets(parsedBuckets) groups the parsed buckets into display
\* buckets.  The routine is outside this file: what is known of it is that it
\* aggregates buckets by model id into an ordered list.  Here the parsed buckets of
\* one model id form one display bucket, in the order of their first appearance,
\* and the display bucket carries the values of one of its members, whichever.

\* the model ids of the parsed buckets, each once, in the order of first appearance
RECURSIVE GroupIds(_)
GroupIds(parsed) ==
    IF parsed = <<>> THEN <<>>
    ELSE <<Head(parsed).modelId.s>>
         \o GroupIds(SelectSeq(Tail(parsed), LAMBDA b : b.modelId # Head(parsed).modelId))

\* the display bucket with the values of one parsed bucket
DisplayBucket(member) ==
    [id |-> member.modelId.s, label |-> member.modelId.s, modelIds |-> {member.modelId.s},
     tokenType |-> member.tokenType, remainingFraction |-> member.remainingFraction,
     remainingAmount |-> member.remainingAmount, resetTime |-> member.resetTime]

\* the lists the routine may return for a list of parsed buckets
buildGeminiCliQuotaBuckets(parsed) ==
    LET ids == GroupIds(parsed)
        Picks == {p \in [1..Len(ids) -> 1..Len(parsed)] :
                    \A g \in 1..Len(ids) : parsed[p[g]].modelId.s = ids[g]}
    IN  {[g \in 1..Len(ids) |-> DisplayBucket(parsed[p[g]])] : p \in Picks}

\* fetchGeminiCliQuota up to its await
GeminiCliStart ==
    /\ config = "gemini-cli"
    /\ pc = "idle"
    /\ quotaState.status = "loading"
    /\ IF AuthIndexOf(file) = ""
       THEN /\ pc' = "thrown"
            /\ error' = NewError(T("gemini_cli_quota.missing_auth_index"))
            /\ UNCHANGED requestLog
       ELSE IF normalizeStringValue(file.project_id) = Null
       THEN /\ pc' = "thrown"
            /\ error' = NewError(T("gemini_cli_quota.missing_project_id"))
            /\ UNCHANGED requestLog
       ELSE /\ pc' = "awaiting"
            /\ requestLog' = Append(requestLog, TheRequest("POST"))
            /\ UNCHANGED error
    /\ UNCHANGED <<downloadLog, credential, projectId, resolution, parsedBuckets, storeVars, config, file, quotaState, loopVars, statusLog, lastOutcome, anyRejected, result>>

\* fetchGeminiCliQuota after its await
GeminiCliResponse(r) ==
    /\ config = "gemini-cli"
    /\ pc = "awaiting"
    /\ statusLog' = Append(statusLog, r.statusCode)
    /\ lastOutcome' = Recorded(r)
    /\ IF IsNon2xx(r.statusCode)
       THEN /\ pc' = "thrown"
            /\ error' = createStatusError(r.message, r.statusCode)
            /\ UNCHANGED <<result, parsedBuckets>>
       ELSE LET payload == ParsePayload(r.body)
                raw == OptGet(payload, "buckets")
                buckets == IF raw.t = "array" THEN raw.items ELSE <<>>
            IN  /\ pc' = "returned"
                /\ IF Len(buckets) = 0
                   THEN /\ result' = Resolved(<<>>)
                        /\ UNCHANGED parsedBuckets
                   ELSE /\ parsedBuckets' = ParseGeminiBuckets(buckets)
                        /\ \E grouped \in buildGeminiCliQuotaBuckets(parsedBuckets') :
                              result' = Resolved(grouped)
                /\ UNCHANGED error
    /\ UNCHANGED <<downloadLog, credential, projectId, resolution, storeVars, config, file, quotaState, loopVars, requestLog, anyRejected>>

----------------------------------------------------------------------------
(* fetchGithubCopilotQuota *)

\* a quota snapshot: every key the fetch reads, absent unless set
NoSnapshot ==
    [t |-> "object", quota_remaining |-> Undef, quotaRemaining |-> Undef, remaining |-> Undef,
     percent_remaining |-> Undef, percentRemaining |-> Undef, unlimited |-> Undef,
     entitlement |-> Undef]

\* the token payload: every key the fetch reads, absent unless set
NoCopilotFields ==
    [t |-> "object", expires_at |-> Undef, expiresAt |-> Undef,
     refresh_in |-> Undef, refreshIn |-> Undef,
     quota_snapshots |-> Undef, quotaSnapshots |-> Undef,
     limited_user_quotas |-> Undef, limitedUserQuotas |-> Undef,
     quota_reset_date |-> Undef, quotaResetDate |-> Undef,
     limited_user_reset_date |-> Undef, limitedUserResetDate |-> Undef,
     sku |-> Undef, access_type_sku |-> Undef, accessTypeSku |-> Undef,
     copilot_plan |-> Undef, copilotPlan |-> Undef, plan |-> Undef,
     plan_type |-> Undef, planType |-> Undef, subscription |-> Undef,
     subscription_type |-> Undef, subscriptionType |-> Undef,
     license |-> Undef, license_type |-> Undef, licenseType |-> Undef]

\* the aliases of the plan label, in the order of the ?? chain
SkuKeys ==
    <<"sku", "access_type_sku", "accessTypeSku", "copilot_plan", "copilotPlan", "plan",
      "plan_type", "planType", "subscription", "subscription_type", "subscriptionType",
      "license", "license_type", "licenseType">>

\* a[1] ?? a[2] ?? ... over the keys of an object
RECURSIVE FirstPresent(_, _)
FirstPresent(obj, keys) ==
    IF Len(keys) = 1 THEN obj[keys[1]]
    ELSE Coalesce(obj[keys[1]], FirstPresent(obj, Tail(keys)))

ValidIsoDate == "1970-01-02T00:00:01.500Z"

\* new Date(text).getTime(): milliseconds, NotANumber for an invalid date
DateGetTime(text) ==
    IF text = ValidIsoDate THEN Num(86401500) ELSE NotANumber

ChatSnapshots ==
    {[NoSnapshot EXCEPT !.quota_remaining = q, !.percent_remaining = p, !.unlimited = u] :
        q \in {Undef, Num(10)}, p \in {Undef, Num(0 - 5), Num(50), Num(150), Str("85")},
        u \in {Undef, Bool(TRUE)}}
    \cup {[NoSnapshot EXCEPT !.quotaRemaining = Num(11), !.percentRemaining = Num(150)],
          [NoSnapshot EXCEPT !.remaining = Num(12)],
          Undef}

OtherSnapshots ==
    {Undef,
     [NoSnapshot EXCEPT !.quota_remaining = Num(20), !.percent_remaining = Num(150),
                        !.entitlement = Num(300)],
     [NoSnapshot EXCEPT !.percent_remaining = Num(0 - 5), !.unlimited = Bool(TRUE)]}

Snapshots(chat, completions, premium) ==
    [t |-> "object", chat |-> chat, completions |-> completions,
     premium_interactions |-> premium, premiumInteractions |-> Undef]

LegacyQuotas == {Undef, [t |-> "object", chat |-> Num(5), completions |-> Str("85")]}

IsoDateValues == {Undef, Null, Str("  "), Str(ValidIsoDate), Str("not-a-date")}
LegacyResetValues == {Undef, Num(86400), Str("abc")}

CopilotPayloads ==
    {[NoCopilotFields EXCEPT !.quota_snapshots = Snapshots(c, o, p), !.limited_user_quotas = l] :
        c \in ChatSnapshots, o \in OtherSnapshots, p \in OtherSnapshots, l \in LegacyQuotas}
    \cup {[NoCopilotFields EXCEPT !.quota_reset_date = d, !.limited_user_reset_date = n,
                                  !.expires_at = Num(86400)] :
            d \in IsoDateValues, n \in LegacyResetValues}
    \cup {[NoCopilotFields EXCEPT !.quotaResetDate = d, !.limitedUserResetDate = Num(86400),
                                  !.refreshIn = Str("150")] :
            d \in IsoDateValues}
    \cup {[NoCopilotFields EXCEPT ![SkuKeys[i]] = Str("business"),
                                  ![SkuKeys[j]] = Str("free_limited")] :
            i \in 1..Len(SkuKeys), j \in {8, 14}}
    \cup {[NoCopilotFields EXCEPT !.quotaSnapshots = Snapshots(Undef, Undef, Undef),
                                  !.limitedUserQuotas = l] : l \in LegacyQuotas}

CopilotResponses ==
    [kind : {"response"}, statusCode : {200}, message : {""},
     body : CopilotPayloads \cup {Null}]
    \cup [kind : {"response"}, statusCode : {401, 500}, message : {MsgForbidden}, body : {Null}]

\* snapshot && typeof snapshot === 'object'
IsObject(v) == v.t = "object"

\* quota_remaining ?? quotaRemaining ?? remaining, normalised
SnapshotQuota(snapshot) ==
    IF IsObject(snapshot)
    THEN normalizeNumberValue(Coalesce(snapshot.quota_remaining,
                                       Coalesce(snapshot.quotaRemaining, snapshot.remaining)))
    ELSE Null

\* percent_remaining ?? percentRemaining, normalised
SnapshotPercent(snapshot) ==
    IF IsObject(snapshot)
    THEN normalizeNumberValue(Coalesce(snapshot.percent_remaining, snapshot.percentRemaining))
    ELSE Null

\* the reset date: the ISO text when there is one, else the legacy number
ResetDateOf(payload) ==
    LET quotaResetDateStr ==
            normalizeStringValue(Coalesce(payload.quota_reset_date, payload.quotaResetDate))
        limitedResetDate ==
            normalizeNumberValue(Coalesce(payload.limited_user_reset_date,
                                          payload.limitedUserResetDate))
    IN  IF quotaResetDateStr # Null
        THEN (IF DateGetTime(quotaResetDateStr.s).t = "number"
              THEN Num(DateGetTime(quotaResetDateStr.s).n \div 1000)
              ELSE Null)
        ELSE IF limitedResetDate # Null THEN limitedResetDate
        ELSE Null

\* the record fetchGithubCopilotQuota returns for a payload
CopilotQuotaOf(payload) ==
    LET quotaSnapshots == Coalesce(payload.quota_snapshots, payload.quotaSnapshots)
        has == IsObject(quotaSnapshots)
        chat == IF has THEN quotaSnapshots.chat ELSE Undef
        completions == IF has THEN quotaSnapshots.completions ELSE Undef
        premium == IF has
                   THEN Coalesce(quotaSnapshots.premium_interactions,
                                 quotaSnapshots.premiumInteractions)
                   ELSE Undef
        quotas == Coalesce(payload.limited_user_quotas, payload.limitedUserQuotas)
        chatQuota == SnapshotQuota(chat)
        completionsQuota == SnapshotQuota(completions)
        legacy == (chatQuota = Null \/ completionsQuota = Null) /\ IsObject(quotas)
    IN  [expiresAt |-> normalizeNumberValue(Coalesce(payload.expires_at, payload.expiresAt)),
         refreshIn |-> normalizeNumberValue(Coalesce(payload.refresh_in, payload.refreshIn)),
         chatQuota |-> IF legacy /\ chatQuota = Null
                       THEN normalizeNumberValue(quotas.chat) ELSE chatQuota,
         chatPercent |-> SnapshotPercent(chat),
         chatUnlimited |-> IsObject(chat) /\ ToBoolean(chat.unlimited),
         completionsQuota |-> IF legacy /\ completionsQuota = Null
                              THEN normalizeNumberValue(quotas.completions)
                              ELSE completionsQuota,
         completionsPercent |-> SnapshotPercent(completions),
         completionsUnlimited |-> IsObject(completions) /\ ToBoolean(completions.unlimited),
         premiumQuota |-> SnapshotQuota(premium),
         premiumPercent |-> SnapshotPercent(premium),
         premiumEntitlement |-> IF IsObject(premium)
                                THEN normalizeNumberValue(premium.entitlement) ELSE Null,
         quotaResetDate |-> ResetDateOf(payload),
         sku |-> normalizeStringValue(FirstPresent(payload, SkuKeys))]

\* fetchGithubCopilotQuota up to its await
GithubCopilotStart ==
    /\ config = "github-copilot"
    /\ pc = "idle"
    /\ quotaState.status = "loading"
    /\ IF AuthIndexOf(file) = ""
       THEN /\ pc' = "thrown"
            /\ error' = NewError(T("github_copilot_quota.missing_auth_index"))
            /\ UNCHANGED requestLog
       ELSE /\ pc' = "awaiting"
            /\ requestLog' = Append(requestLog, TheRequest("GET"))
            /\ UNCHANGED error
    /\ UNCHANGED <<downloadLog, credential, projectId, resolution, parsedBuckets, storeVars, config, file, quotaState, loopVars, statusLog, lastOutcome, anyRejected, result>>

\* fetchGithubCopilotQuota after its await
GithubCopilotResponse(r) ==
    /\ config = "github-copilot"
    /\ pc = "awaiting"
    /\ statusLog' = Append(statusLog, r.statusCode)
    /\ lastOutcome' = Recorded(r)
    /\ IF IsNon2xx(r.statusCode)
       THEN /\ pc' = "thrown"
            /\ error' = createStatusError(r.message, r.statusCode)
            /\ UNCHANGED result
       ELSE LET payload == ParsePayload(r.body)
            IN  IF payload = Null
                THEN /\ pc' = "thrown"
                     /\ error' = NewError(T("github_copilot_quota.invalid_response"))
                     /\ UNCHANGED result
                ELSE /\ pc' = "returned"
                     /\ result' = Resolved(CopilotQuotaOf(payload))
                     /\ UNCHANGED error
    /\ UNCHANGED <<downloadLog, credential, projectId, resolution, parsedBuckets, storeVars, config, file, quotaState, loopVars, requestLog, anyRejected>>

----------------------------------------------------------------------------
(* The state builders of the four configs *)

NoState == [status |-> "none"]

\* the GithubCopilot fields of a state that carries no data
NoCopilotData ==
    [expiresAt |-> Null, refreshIn |-> Null, chatQuota |-> Null, chatPercent |-> Null,
     chatUnlimited |-> FALSE, completionsQuota |-> Null, completionsPercent |-> Null,
     completionsUnlimited |-> FALSE, premiumQuota |-> Null, premiumPercent |-> Null,
     premiumEntitlement |-> Null, quotaResetDate |-> Null, sku |-> Null]

\* r1 with the fields of r2 added (an object literal listing both)
Merge(r1, r2) ==
    [k \in DOMAIN r1 \cup DOMAIN r2 |-> IF k \in DOMAIN r2 THEN r2[k] ELSE r1[k]]

buildLoadingState(cfg) ==
    CASE cfg = "antigravity" -> [status |-> "loading", groups |-> <<>>]
      [] cfg = "codex" -> [status |-> "loading", windows |-> <<>>]
      [] cfg = "gemini-cli" -> [status |-> "loading", buckets |-> <<>>]
      [] cfg = "github-copilot" -> Merge([status |-> "loading"], NoCopilotData)

buildSuccessState(cfg, data) ==
    CASE cfg = "antigravity" -> [status |-> "success", groups |-> data]
      [] cfg = "codex" ->
            [status |-> "success", windows |-> data.windows, planType |-> data.planType]
      [] cfg = "gemini-cli" -> [status |-> "success", buckets |-> data]
      [] cfg = "github-copilot" ->
            [status |-> "success", expiresAt |-> data.expiresAt, refreshIn |-> data.refreshIn,
             chatQuota |-> data.chatQuota, chatPercent |-> data.chatPercent,
             chatUnlimited |-> data.chatUnlimited,
             completionsQuota |-> data.completionsQuota,
             completionsPercent |-> data.completionsPercent,
             completionsUnlimited |-> data.completionsUnlimited,
             premiumQuota |-> data.premiumQuota, premiumPercent |-> data.premiumPercent,
             premiumEntitlement |-> data.premiumEntitlement,
             quotaResetDate |-> data.quotaResetDate, sku |-> data.sku]

\* as buildErrorState, with the loading literal's status left in the copied literal
buildErrorState_StatusNotSet(cfg, message, status) ==
    Merge(buildLoadingState(cfg), [error |-> message, errorStatus |-> status])

buildErrorState(cfg, message, status) ==
    CASE cfg = "antigravity" ->
            [status |-> "error", groups |-> <<>>, error |-> message, errorStatus |-> status]
      [] cfg = "codex" ->
            [status |-> "error", windows |-> <<>>, error |-> message, errorStatus |-> status]
      [] cfg = "gemini-cli" ->
            [status |-> "error", buckets |-> <<>>, error |-> message, errorStatus |-> status]
      [] cfg = "github-copilot" ->
            Merge(Merge([status |-> "error"], NoCopilotData),
                  [error |-> message, errorStatus |-> status])

\* The loader that drives a config: it builds the loading state, runs fetchQuota and,
\* when the fetch settles, builds the success or the error state.
BeginLoad ==
    /\ pc = "idle"
    /\ quotaState = NoState
    /\ quotaState' = buildLoadingState(config)
    /\ UNCHANGED <<downloadLog, credential, projectId, resolution, parsedBuckets, storeVars, config, file, pc, loopVars, requestLog, statusLog, lastOutcome, anyRejected,
                   result, error>>

Settle ==
    /\ pc \in {"returned", "thrown"}
    /\ quotaState.status = "loading"
    /\ quotaState' = IF pc = "returned"
                     THEN buildSuccessState(config, result.value)
                     ELSE buildErrorState(config, error.message, error.status)
    /\ UNCHANGED <<downloadLog, credential, projectId, resolution, parsedBuckets, storeVars, config, file, pc, loopVars, requestLog, statusLog, lastOutcome, anyRejected,
                   result, error>>

----------------------------------------------------------------------------
(* useQuotaStore *)

\* the keys of a provider mapping (file names) and the states written under them
StoreKeys == {"a.json", "b.json"}
StoreEntries == {[status |-> "loading"], [status |-> "success"], [status |-> "error"]}

\* {} and the mappings handed to a setter as plain values
EmptyMapping == [k \in {} |-> [status |-> "loading"]]
PlainMappings == {EmptyMapping, [k \in {"a.json"} |-> [status |-> "success"]]}

\* as WriteEntry, without the spread of the previous mapping
WriteEntry_WithoutSpread(key, entry, prev) == [k \in {key} |-> entry]

\* (prev) => ({ ...prev, [key]: entry }): the updater a fetch hands to the setter
WriteEntry(key, entry, prev) ==
    [k \in DOMAIN prev \cup {key} |-> IF k = key THEN entry ELSE prev[k]]

\* QuotaUpdater<T>: a plain mapping, or a function of the previous mapping
Updaters ==
    [isFunction : {FALSE}, value : PlainMappings]
    \cup [isFunction : {TRUE}, key : StoreKeys, entry : StoreEntries]

\* as resolveUpdater, with a function updater called on an empty mapping
resolveUpdater_NotFromPrev(updater, prev) ==
    IF updater.isFunction
    THEN WriteEntry(updater.key, updater.entry, EmptyMapping)
    ELSE updater.value

resolveUpdater(updater, prev) ==
    IF updater.isFunction
    THEN WriteEntry(updater.key, updater.entry, prev)
    ELSE updater.value

\* the store as created
InitialStore ==
    [antigravityQuota |-> EmptyMapping, codexQuota |-> EmptyMapping,
     geminiCliQuota |-> EmptyMapping, kiroQuota |-> EmptyMapping,
     githubCopilotQuota |-> EmptyMapping]

\* set(partial): the fields of the partial state replace those of the store
Set(partial) == store' = Merge(store, partial)

setAntigravityQuota(updater) ==
    Set([antigravityQuota |-> resolveUpdater(updater, store.antigravityQuota)])

setCodexQuota(updater) ==
    Set([codexQuota |-> resolveUpdater(updater, store.codexQuota)])

setGeminiCliQuota(updater) ==
    Set([geminiCliQuota |-> resolveUpdater(updater, store.geminiCliQuota)])

setKiroQuota(updater) ==
    Set([kiroQuota |-> resolveUpdater(updater, store.kiroQuota)])

setGithubCopilotQuota(updater) ==
    Set([githubCopilotQuota |-> resolveUpdater(updater, store.githubCopilotQuota)])

\* as clearQuotaCache, for the four mappings of the QuotaStore interface
clearQuotaCache_FourMappings ==
    Set([antigravityQuota |-> EmptyMapping, codexQuota |-> EmptyMapping,
         geminiCliQuota |-> EmptyMapping, githubCopilotQuota |-> EmptyMapping])

clearQuotaCache ==
    Set([antigravityQuota |-> EmptyMapping, codexQuota |-> EmptyMapping,
         geminiCliQuota |-> EmptyMapping, kiroQuota |-> EmptyMapping,
         githubCopilotQuota |-> EmptyMapping])

\* a call of a store function is recorded; a clear is recorded with the store it found
NoCall == [op |-> "none"]
SetterCall(name, updater) == [op |-> "set", setter |-> name, updater |-> updater]
ClearCall == [op |-> "clear", before |-> store]
Called(call) ==
    /\ calls < MaxCalls
    /\ calls' = calls + 1
    /\ lastCall' = call
    /\ UNCHANGED fetchVars

SetAntigravityQuotaCall ==
    \E u \in Updaters : Called(SetterCall("setAntigravityQuota", u)) /\ setAntigravityQuota(u)

SetCodexQuotaCall ==
    \E u \in Updaters : Called(SetterCall("setCodexQuota", u)) /\ setCodexQuota(u)

SetGeminiCliQuotaCall ==
    \E u \in Updaters : Called(SetterCall("setGeminiCliQuota", u)) /\ setGeminiCliQuota(u)

SetKiroQuotaCall ==
    \E u \in Updaters : Called(SetterCall("setKiroQuota", u)) /\ setKiroQuota(u)

SetGithubCopilotQuotaCall ==
    \E u \in Updaters :
        Called(SetterCall("setGithubCopilotQuota", u)) /\ setGithubCopilotQuota(u)

ClearQuotaCacheCall == Called(ClearCall) /\ clearQuotaCache

----------------------------------------------------------------------------
(* The auth entries and the specification *)

AuthFile(name, authIndexSnake, authIndexCamel, accountId, project, planType) ==
    [name |-> name, auth_index |-> authIndexSnake, authIndex |-> authIndexCamel,
     account_id |-> accountId, project_id |-> project, plan_type |-> planType]

Files(cfg) ==
    CASE cfg = "antigravity" ->
            {AuthFile("antigravity-a.json", Str("1"), Undef, Undef, Undef, Undef),
             AuthFile("antigravity-b.json", Undef, Undef, Undef, Undef, Undef)}
      [] cfg = "codex" ->
            {AuthFile("codex-a.json", Undef, Str("2"), Str("acct-1"), Undef, Str("Plus")),
             AuthFile("codex-b.json", Str(""), Null, Str("acct-1"), Undef, Undef),
             AuthFile("codex-c.json", Str("2"), Undef, Str("  "), Undef, Undef)}
      [] cfg = "gemini-cli" ->
            {AuthFile("gemini-a.json", Num(3), Undef, Undef, Str(" proj-1 "), Undef),
             AuthFile("gemini-b.json", Null, Undef, Undef, Str(" proj-1 "), Undef),
             AuthFile("gemini-c.json", Str("3"), Undef, Undef, Undef, Undef)}
      [] cfg = "github-copilot" ->
            {AuthFile("copilot-a.json", Str("4"), Undef, Undef, Undef, Undef),
             AuthFile("copilot-b.json", Undef, Undef, Undef, Undef, Undef)}

Configs == {"antigravity", "codex", "gemini-cli", "github-copilot"}

Init ==
    /\ config \in Configs
    /\ file \in Files(config)
    /\ pc = "idle"
    /\ urlIdx = 1
    /\ attempt = 0
    /\ lastError = ""
    /\ lastStatus = NoStatus
    /\ priorityStatus = NoStatus
    /\ hadSuccess = FALSE
    /\ requestLog = <<>>
    /\ statusLog = <<>>
    /\ lastOutcome = NoOutcome
    /\ anyRejected = FALSE
    /\ result = NoResult
    /\ error = NoError
    /\ quotaState = NoState
    /\ downloadLog = <<>>
    /\ credential = NoDownload
    /\ resolution = ""
    /\ projectId = ""
    /\ parsedBuckets = <<>>
    /\ store = InitialStore
    /\ lastCall = NoCall
    /\ calls = 0

\* the outstanding request completes: apiCallApi.request resolves or rejects
AntigravityReceive ==
    /\ config = "antigravity"
    /\ pc = "awaiting"
    /\ \/ \E r \in Responses : AntigravityErrorResponse(r)
       \/ \E r \in Responses : AntigravityOkResponse(r)
       \/ \E e \in Failures : AntigravityFailure(e)

CodexReceive ==
    /\ config = "codex"
    /\ pc = "awaiting"
    /\ \/ \E r \in CodexResponses : CodexResponse(r)
       \/ \E e \in Failures : RequestFailure(e)

GeminiCliReceive ==
    /\ config = "gemini-cli"
    /\ pc = "awaiting"
    /\ \/ \E r \in GeminiResponses : GeminiCliResponse(r)
       \/ \E e \in Failures : RequestFailure(e)

GithubCopilotReceive ==
    /\ config = "github-copilot"
    /\ pc = "awaiting"
    /\ \/ \E r \in CopilotResponses : GithubCopilotResponse(r)
       \/ \E e \in Failures : RequestFailure(e)

Next ==
    \/ BeginLoad
    \/ AntigravityStart
    \/ AntigravityDownload
    \/ AntigravityResolve
    \/ AntigravityResume
    \/ AntigravitySend
    \/ AntigravityReceive
    \/ CodexStart
    \/ CodexReceive
    \/ GeminiCliStart
    \/ GeminiCliReceive
    \/ GithubCopilotStart
    \/ GithubCopilotReceive
    \/ Settle

Spec == Init /\ [][Next]_vars

\* The store on its own: the calls of its setters and of clearQuotaCache, in any
\* order, while no fetch is under way.
StoreInit ==
    /\ Init
    /\ config = "antigravity"
    /\ file.name = "antigravity-a.json"

StoreNext ==
    \/ SetAntigravityQuotaCall
    \/ SetCodexQuotaCall
    \/ SetGeminiCliQuotaCall
    \/ SetKiroQuotaCall
    \/ SetGithubCopilotQuotaCall
    \/ ClearQuotaCacheCall

StoreSpec == StoreInit /\ [][StoreNext]_vars

\* a step of fetchAntigravityQuota, or the settling of what it awaits; the position
\* of the fetch enables at most one of them
AntigravityStep ==
    \/ AntigravityStart
    \/ AntigravityDownload
    \/ AntigravityResolve
    \/ AntigravityResume
    \/ AntigravitySend
    \/ AntigravityReceive

\* The same steps when every download and every request settles and the fetch, once
\* called, runs on whenever it can.
FairSpec == Spec /\ WF_vars(AntigravityStep)

----------------------------------------------------------------------------
(* Reading the logs *)

Antigravity == config = "antigravity"
Finished == pc \in {"returned", "thrown"}

\* the first 403 or 404 of a status log, NoStatus if it has none
FirstPriorityIn(log) ==
    IF \E i \in 1..Len(log) : log[i] \in {403, 404}
    THEN log[CHOOSE i \in 1..Len(log) :
                /\ log[i] \in {403, 404}
                /\ \A j \in 1..(i - 1) : log[j] \notin {403, 404}]
    ELSE NoStatus

\* the latest status of a status log, NoStatus if no request showed one
LatestStatusIn(log) ==
    IF \E i \in 1..Len(log) : log[i] # NoStatus
    THEN log[CHOOSE i \in 1..Len(log) :
                /\ log[i] # NoStatus
                /\ \A j \in (i + 1)..Len(log) : log[j] = NoStatus]
    ELSE NoStatus

\* every request resolved, each with a non-2xx status, and one of them with 403
AllNon2xxWith403 ==
    /\ Len(statusLog) > 0
    /\ ~anyRejected
    /\ \A i \in 1..Len(statusLog) : statusLog[i] # NoStatus /\ IsNon2xx(statusLog[i])
    /\ \E i \in 1..Len(statusLog) : statusLog[i] = 403

\* the latest completed request resolved (with a non-2xx status, with a 2xx status)
LastIsResponse == lastOutcome.outcome.kind = "response"
LastIsErrorResponse == LastIsResponse /\ IsNon2xx(lastOutcome.outcome.statusCode)
LastIsOkResponse == LastIsResponse /\ ~IsNon2xx(lastOutcome.outcome.statusCode)

\* the 400 "unknown field" answer, read off the message text itself
LastIsUnknownField400 ==
    /\ LastIsErrorResponse
    /\ lastOutcome.outcome.statusCode = 400
    /\ lastOutcome.outcome.message = MsgUnknownField

\* the request that follows the latest completed one goes to url u with body index b
\* (it is about to be issued, or it is the outstanding one)
NextRequestIs(u, b) ==
    /\ pc \in {"sending", "awaiting"}
    /\ urlIdx = u
    /\ attempt = b
    /\ pc = "awaiting" =>
          /\ Len(requestLog) = Len(statusLog) + 1
          /\ requestLog[Len(requestLog)] = [url |-> u, body |-> RequestBodies[b + 1]]

\* no request follows the latest completed one
NoNextRequest == Finished /\ Len(requestLog) = Len(statusLog)

\* what the loop does after the latest completed request when it moves to the next url
MovesToNextUrl ==
    IF lastOutcome.url < NumUrls
    THEN NextRequestIs(lastOutcome.url + 1, 0)
    ELSE NoNextRequest

\* what the loop does after the latest completed request when it moves to the next body
MovesToNextBody ==
    IF lastOutcome.body + 1 < Len(RequestBodies)
    THEN NextRequestIs(lastOutcome.url, lastOutcome.body + 1)
    ELSE MovesToNextUrl

\* requests never go back to an earlier url
UrlsNeverGoBack ==
    \A i, j \in 1..Len(requestLog) : i < j => requestLog[i].url <= requestLog[j].url

----------------------------------------------------------------------------
(* C1 *)

\* C1 as stated: when every attempt returned a non-2xx status and one of them was
\* 403, the error thrown carries status 403, whatever came before the 403.
C1_AsStated ==
    (Antigravity /\ pc = "thrown" /\ AllNon2xxWith403) => error.status = 403

\* C1 (amended): when every attempt returned a non-2xx status, one of them was 403
\* and no 404 was returned before the first 403, the error thrown carries status 403.
C1_First403Wins ==
    (/\ Antigravity
     /\ pc = "thrown"
     /\ AllNon2xxWith403
     /\ FirstPriorityIn(statusLog) = 403) => error.status = 403

C1_Witness ==
    /\ Antigravity
    /\ pc = "thrown"
    /\ AllNon2xxWith403
    /\ statusLog = <<403, 404>>
    /\ error.status = 403

----------------------------------------------------------------------------
(* C2 *)

\* the body of the latest response, when the request resolved with 2xx and an object
LastPayload == lastOutcome.outcome.body
LastIsOkPayload == LastIsOkResponse /\ LastPayload.t = "object"

\* the payload's ISO reset text is there and is no date
IsoTextOfLast ==
    IF LastPayload.quota_reset_date.t \in {"undefined", "null"}
    THEN LastPayload.quotaResetDate
    ELSE LastPayload.quota_reset_date
IsoTextPresentButInvalid == IsoTextOfLast = Str("not-a-date")

\* the payload's legacy numeric reset field
LegacyResetOfLast ==
    IF LastPayload.limited_user_reset_date.t \in {"undefined", "null"}
    THEN LastPayload.limitedUserResetDate
    ELSE LastPayload.limited_user_reset_date

\* C2 as stated: with an ISO reset text that does not parse, the fetch returns, and
\* quotaResetDate is the legacy numeric field when the payload has one, null otherwise.
C2_AsStated ==
    (config = "github-copilot" /\ LastIsOkPayload /\ IsoTextPresentButInvalid) =>
        /\ pc = "returned"
        /\ result.value.quotaResetDate =
              (IF LegacyResetOfLast.t = "number" THEN LegacyResetOfLast ELSE Null)

----------------------------------------------------------------------------
(* C3 *)

\* C3: after a 400 "unknown field" response to the first body the next request is the
\* second body on the same url; after that response to the last body, or after any
\* other non-2xx response, the next request (if any) is the first body of the next
\* url, and requests never return to an earlier url.
C3_BodyRetryOnlyOnUnknownField ==
    Antigravity =>
        /\ UrlsNeverGoBack
        /\ LastIsErrorResponse =>
              IF LastIsUnknownField400 /\ lastOutcome.body = 0
              THEN NextRequestIs(lastOutcome.url, 1)
              ELSE MovesToNextUrl

C3_Witness ==
    /\ Antigravity
    /\ pc = "awaiting"
    /\ LastIsUnknownField400
    /\ lastOutcome.body = 0
    /\ requestLog = <<[url |-> 1, body |-> "projectId"], [url |-> 1, body |-> "project"]>>

----------------------------------------------------------------------------
(* C4 *)

\* a 2xx response whose models field is a map with a model that gives a group
LastGaveGroups ==
    /\ LastIsOkResponse
    /\ lastOutcome.outcome.models.type = "object"
    /\ lastOutcome.outcome.models.names \cap {"claude", "gemini"} # {}

\* the groups of the latest response, read off the names of its model map
GroupsOfLast ==
    LET names == lastOutcome.outcome.models.names
    IN  (IF "claude" \in names THEN <<"claude">> ELSE <<>>)
        \o (IF "gemini" \in names THEN <<"gemini">> ELSE <<>>)

\* C4: a 2xx response with a model map that yields groups ends the fetch: those
\* groups are the result, no request follows, and no error is reported, whatever
\* statuses and messages earlier attempts recorded; and a non-empty result is
\* always the groups of the latest response.
C4_FirstNonEmptyWins ==
    Antigravity =>
        /\ LastGaveGroups =>
              /\ pc = "returned"
              /\ result = Resolved(GroupsOfLast)
              /\ error = NoError
              /\ NoNextRequest
        /\ (pc = "returned" /\ result # Resolved(<<>>)) => LastGaveGroups

C4_Witness ==
    /\ Antigravity
    /\ pc = "returned"
    /\ result = Resolved(<<"gemini">>)
    /\ statusLog = <<403, 403, 200>>
    /\ priorityStatus = 403
    /\ lastOutcome.url = 2

----------------------------------------------------------------------------
(* C5 *)

\* the loop ran out of candidates without a non-empty result
Exhausted == Finished /\ Len(statusLog) > 0 /\ ~LastGaveGroups

Some2xx == \E i \in 1..Len(statusLog) : ~IsNon2xx(statusLog[i])

\* the message recorded for the latest completed request, read off its outcome
LastRecordedMessage ==
    LET o == lastOutcome.outcome
    IN  IF o.kind = "failure"
        THEN (IF o.isError THEN o.message ELSE T("common.unknown_error"))
        ELSE IF IsNon2xx(o.statusCode) THEN o.message
        ELSE IF o.models.type = "throws" THEN "Unexpected token"
        ELSE T("antigravity_quota.empty_models")

\* C5 as stated: with the candidates exhausted, a 2xx among the attempts gives an
\* empty list and no error; otherwise the fetch throws the last recorded message.
C5_AsStated ==
    (Antigravity /\ Exhausted) =>
        IF Some2xx
        THEN pc = "returned" /\ result = Resolved(<<>>) /\ error = NoError
        ELSE pc = "thrown" /\ result = NoResult /\ error.message = LastRecordedMessage

\* C5 (amended): as stated, except that when the last recorded message is the empty
\* string the error carries the generic unknown-error text instead.
C5_ExhaustedOutcome ==
    (Antigravity /\ Exhausted) =>
        IF Some2xx
        THEN pc = "returned" /\ result = Resolved(<<>>) /\ error = NoError
        ELSE /\ pc = "thrown"
             /\ result = NoResult
             /\ error.message = (IF LastRecordedMessage = ""
                                 THEN T("common.unknown_error")
                                 ELSE LastRecordedMessage)

C5_Witness ==
    /\ Antigravity
    /\ pc = "returned"
    /\ result = Resolved(<<>>)
    /\ statusLog = <<200, 403, 500>>
    /\ priorityStatus = 403

----------------------------------------------------------------------------
(* C6 *)

\* C6: the status of the final error is the first 403 or 404 any attempt showed;
\* when no attempt showed one, it is the latest status any attempt showed.
C6_PriorityStatus ==
    (Antigravity /\ pc = "thrown" /\ Len(statusLog) > 0) =>
        error.status = (IF FirstPriorityIn(statusLog) # NoStatus
                        THEN FirstPriorityIn(statusLog)
                        ELSE LatestStatusIn(statusLog))

C6_Witness ==
    /\ Antigravity
    /\ pc = "thrown"
    /\ anyRejected
    /\ statusLog = <<404, 403, 500>>
    /\ error.status = 404

----------------------------------------------------------------------------
(* C7 *)

LastHadNoModelMap ==
    /\ LastIsOkResponse
    /\ lastOutcome.outcome.models.type \in {"undefined", "null", "string", "array"}

LastHadZeroGroups ==
    /\ LastIsOkResponse
    /\ lastOutcome.outcome.models.type = "object"
    /\ lastOutcome.outcome.models.names \cap {"claude", "gemini"} = {}

\* C7: a 2xx response whose models field is absent, not an object, or an array is
\* not returned as the result; "empty models" is recorded and the loop goes on to
\* the next body, or the next url, as it does for a model map with zero groups.
C7_ArrayModelsAreEmpty ==
    (Antigravity /\ (LastHadNoModelMap \/ LastHadZeroGroups)) =>
        /\ lastError = T("antigravity_quota.empty_models")
        /\ hadSuccess
        /\ MovesToNextBody
        /\ pc = "returned" => result = Resolved(<<>>)

C7_Witness ==
    /\ Antigravity
    /\ LastHadNoModelMap
    /\ lastOutcome.outcome.models = Models("array", {"claude"})
    /\ lastOutcome.body = 0
    /\ pc = "awaiting"
    /\ attempt = 1

----------------------------------------------------------------------------
(* C8 *)

\* a normalised number is unknown or lies in lo..hi
InRange(v, lo, hi) == v = Null \/ (lo <= v.n /\ v.n <= hi)

\* C8 as stated: every percentage or fraction in an adapter's result is unknown or in
\* its range: Codex usedPercent and the three GithubCopilot percents in 0..100,
\* GeminiCli remainingFraction in 0..1 (0..100 hundredths).
C8_AsStated ==
    pc = "returned" =>
        CASE config = "codex" ->
                \A i \in 1..Len(result.value.windows) :
                    InRange(result.value.windows[i].usedPercent, 0, 100)
          [] config = "github-copilot" ->
                /\ InRange(result.value.chatPercent, 0, 100)
                /\ InRange(result.value.completionsPercent, 0, 100)
                /\ InRange(result.value.premiumPercent, 0, 100)
          [] config = "gemini-cli" ->
                \A i \in 1..Len(result.value) :
                    InRange(result.value[i].remainingFraction, 0, 100)
          [] OTHER -> TRUE

----------------------------------------------------------------------------
(* C9 *)

\* the data fields of a state are those of a state without data
CarriesNoData(state) ==
    CASE config = "antigravity" -> state.groups = <<>>
      [] config = "codex" -> state.windows = <<>> /\ "planType" \notin DOMAIN state
      [] config = "gemini-cli" -> state.buckets = <<>>
      [] config = "github-copilot" ->
            /\ \A k \in {"expiresAt", "refreshIn", "chatQuota", "chatPercent",
                         "completionsQuota", "completionsPercent", "premiumQuota",
                         "premiumPercent", "premiumEntitlement", "quotaResetDate", "sku"} :
                    state[k] = Null
            /\ state.chatUnlimited = FALSE
            /\ state.completionsUnlimited = FALSE

\* C9: a built state has exactly one of the statuses loading, success, error: loading
\* while the fetch runs, success after it returned, error after it threw; only an
\* error state carries an error message, and it carries the fetch's message and
\* status and no result data.
C9_OneStatusAndErrorHasNoData ==
    quotaState # NoState =>
        /\ Cardinality({st \in {"loading", "success", "error"} : quotaState.status = st}) = 1
        /\ quotaState.status = "loading" => CarriesNoData(quotaState)
        /\ quotaState.status = "success" => pc = "returned"
        /\ quotaState.status = "error" <=> "error" \in DOMAIN quotaState
        /\ quotaState.status = "error" =>
              /\ pc = "thrown"
              /\ CarriesNoData(quotaState)
              /\ quotaState.error = error.message
              /\ quotaState.errorStatus = error.status
        /\ (pc = "thrown" /\ quotaState.status # "loading") => quotaState.status = "error"

C9_Witness ==
    /\ config = "github-copilot"
    /\ quotaState.status = "error"
    /\ quotaState.errorStatus = 401
    /\ quotaState.chatPercent = Null

----------------------------------------------------------------------------
(* C10 *)

\* a ?? b on payload values, spelled out
FirstOf(a, b) == IF a.t \in {"undefined", "null"} THEN b ELSE a

\* the three windows of the latest payload and the flags of their rate limits
RateLimitOfLast == FirstOf(LastPayload.rate_limit, LastPayload.rateLimit)
CodeReviewOfLast ==
    FirstOf(LastPayload.code_review_rate_limit, LastPayload.codeReviewRateLimit)
LimitOf(id) == IF id = "code-review" THEN CodeReviewOfLast ELSE RateLimitOfLast
PayloadWindow(id) ==
    LET limit == LimitOf(id)
    IN  IF limit.t # "object" THEN Undef
        ELSE IF id = "secondary" THEN FirstOf(limit.secondary_window, limit.secondaryWindow)
        ELSE FirstOf(limit.primary_window, limit.primaryWindow)

\* the percentage the payload states for a window: a number, or numeric text
ExplicitPercent(window) ==
    LET v == IF window.t = "object" THEN FirstOf(window.used_percent, window.usedPercent)
             ELSE Undef
    IN  IF v.t = "number" THEN v
        ELSE IF v = Str("85") THEN Num(85)
        ELSE Null

\* limit_reached is true, or allowed is false, on the window's rate limit
FlaggedExhausted(id) ==
    \/ FirstOf(LimitOf(id).limit_reached, LimitOf(id).limitReached) = Bool(TRUE)
    \/ LimitOf(id).allowed = Bool(FALSE)

ResultWindows(id) ==
    {i \in 1..Len(result.value.windows) : result.value.windows[i].id = id}

\* C10: a window object of the payload gives exactly one result window, a missing
\* (undefined or null) window none, and no window more than one; the usedPercent of
\* a result window is the payload's own percentage when the window has one, else 100
\* when the rate limit is flagged (limit_reached true or allowed false) and the
\* window's reset label is neither empty nor '-', else unknown.
C10_UsedPercent ==
    (config = "codex" /\ pc = "returned") =>
        \A id \in {"primary", "secondary", "code-review"} :
                 /\ PayloadWindow(id).t = "object" => Cardinality(ResultWindows(id)) = 1
                 /\ PayloadWindow(id).t \in {"undefined", "null"} => ResultWindows(id) = {}
                 /\ Cardinality(ResultWindows(id)) <= 1
                 /\ \A i \in ResultWindows(id) :
                      LET w == result.value.windows[i]
                      IN  w.usedPercent =
                            (IF ExplicitPercent(PayloadWindow(id)) # Null
                             THEN ExplicitPercent(PayloadWindow(id))
                             ELSE IF FlaggedExhausted(id) /\ w.resetLabel \notin {"", "-"}
                             THEN Num(100)
                             ELSE Null)

\* a flagged window without a percentage and with a reset label, next to a flagged
\* window without a reset label
C10_Witness ==
    /\ config = "codex"
    /\ pc = "returned"
    /\ Len(result.value.windows) = 2
    /\ LastPayload.rate_limit.t = "object"
    /\ LastPayload.rate_limit.limit_reached = Bool(TRUE)
    /\ LastPayload.rate_limit.primary_window.t = "object"
    /\ LastPayload.rate_limit.primary_window.used_percent = Str("abc")
    /\ result.value.windows[1].usedPercent = Null
    /\ result.value.windows[1].resetLabel = "-"
    /\ result.value.windows[2].usedPercent = Num(100)
    /\ result.value.windows[2].resetLabel # "-"

----------------------------------------------------------------------------
(* C11 *)

\* the raw buckets of the latest payload that have a model id, in payload order
RawBucketsWithModel ==
    IF LastPayload.t = "object" /\ LastPayload.buckets.t = "array"
    THEN SelectSeq(LastPayload.buckets.items,
                   LAMBDA b : FirstOf(b.modelId, b.model_id).t = "string")
    ELSE <<>>

\* the direct fraction of a raw bucket, in hundredths; null when it has none
DirectFraction(bucket) ==
    LET v == FirstOf(bucket.remainingFraction, bucket.remaining_fraction)
    IN  IF v.t = "number" THEN v
        ELSE IF v = Str("50%") THEN Num(50)
        ELSE Null

\* the remaining amount of a raw bucket; null when it has none
AmountOf(bucket) ==
    LET v == FirstOf(bucket.remainingAmount, bucket.remaining_amount)
    IN  IF v.t = "number" THEN v
        ELSE IF v = Str("-5") THEN Num(0 - 5)
        ELSE Null

HasResetTime(bucket) == FirstOf(bucket.resetTime, bucket.reset_time).t = "string"

\* C11: every raw bucket with a model id gives one parsed bucket, in payload order, in
\* the list fetchGeminiCliQuota hands to the grouping routine, whose
\* remainingFraction is the direct fraction when the raw bucket has one; else 0 when
\* it has a remaining amount <= 0; else 0 when it has no remaining amount but a reset
\* time; else null (a positive amount with a reset time included).
C11_RemainingFraction ==
    (config = "gemini-cli" /\ pc = "returned") =>
        /\ Len(parsedBuckets) = Len(RawBucketsWithModel)
        /\ \A i \in 1..Len(RawBucketsWithModel) :
              LET raw == RawBucketsWithModel[i]
              IN  parsedBuckets[i].remainingFraction =
                    (IF DirectFraction(raw) # Null THEN DirectFraction(raw)
                     ELSE IF AmountOf(raw) # Null
                     THEN (IF AmountOf(raw).n <= 0 THEN Num(0) ELSE Null)
                     ELSE IF HasResetTime(raw) THEN Num(0)
                     ELSE Null)

\* a positive amount with a reset time and no fraction, next to a bucket whose
\* reset time alone gives 0
C11_Witness ==
    /\ config = "gemini-cli"
    /\ pc = "returned"
    /\ Len(RawBucketsWithModel) = 2
    /\ DirectFraction(RawBucketsWithModel[1]) = Null
    /\ AmountOf(RawBucketsWithModel[1]) = Num(7)
    /\ HasResetTime(RawBucketsWithModel[1])
    /\ parsedBuckets[1].remainingFraction = Null
    /\ DirectFraction(RawBucketsWithModel[2]) = Null
    /\ AmountOf(RawBucketsWithModel[2]) = Null
    /\ HasResetTime(RawBucketsWithModel[2])
    /\ parsedBuckets[2].remainingFraction = Num(0)

----------------------------------------------------------------------------
(* C12 *)

\* the entry's auth index (auth_index ?? authIndex) is missing or empty
AuthIndexMissing ==
    FirstOf(file.auth_index, file.authIndex) \in {Undef, Null, Str("")}

\* the entry has no account id, no project id
AccountIdMissing == file.account_id \in {Undef, Null, Str(""), Str("  ")}
ProjectIdMissing == file.project_id \in {Undef, Null, Str(""), Str("  ")}

\* the fetch, once it has run, has thrown a plain error with the text of the key
FailedWith(key) ==
    pc # "idle" => (pc = "thrown" /\ error.message = T(key) /\ error.status = NoStatus)

NothingIssued == requestLog = <<>> /\ downloadLog = <<>>

\* C12: without an auth index every fetch throws its missing-auth-index error, and
\* fetchCodexQuota without an account id and fetchGeminiCliQuota without a project id
\* throw their own error; no dispatcher request and no credential download is ever
\* issued by such a fetch.
C12_FailsBeforeAnyRequest ==
    /\ AuthIndexMissing =>
          /\ NothingIssued
          /\ config = "antigravity" => FailedWith("antigravity_quota.missing_auth_index")
          /\ config = "codex" => FailedWith("codex_quota.missing_auth_index")
          /\ config = "gemini-cli" => FailedWith("gemini_cli_quota.missing_auth_index")
          /\ config = "github-copilot" => FailedWith("github_copilot_quota.missing_auth_index")
    /\ (config = "codex" /\ ~AuthIndexMissing /\ AccountIdMissing) =>
          NothingIssued /\ FailedWith("codex_quota.missing_account_id")
    /\ (config = "gemini-cli" /\ ~AuthIndexMissing /\ ProjectIdMissing) =>
          NothingIssued /\ FailedWith("gemini_cli_quota.missing_project_id")

C12_Witness ==
    /\ config = "antigravity"
    /\ AuthIndexMissing
    /\ pc = "thrown"
    /\ downloadLog = <<>>
    /\ quotaState.status = "error"

----------------------------------------------------------------------------
(* C13 *)

SingleRequestFetch == config \in {"codex", "gemini-cli", "github-copilot"}

\* C13: a single-request fetch issues at most one request; after a non-2xx response
\* it has thrown an error with that response's status, after a rejected request it
\* has thrown what the request rejected with.
C13_OneRequestNoRetry ==
    SingleRequestFetch =>
        /\ Len(requestLog) <= 1
        /\ Len(statusLog) <= 1
        /\ (LastIsResponse /\ (lastOutcome.outcome.statusCode < 200
                               \/ lastOutcome.outcome.statusCode >= 300)) =>
              /\ pc = "thrown"
              /\ error.status = lastOutcome.outcome.statusCode
        /\ lastOutcome.outcome.kind = "failure" =>
              /\ pc = "thrown"
              /\ error.message = lastOutcome.outcome.message
              /\ error.status = lastOutcome.outcome.status

C13_Witness ==
    /\ config = "gemini-cli"
    /\ Len(requestLog) = 1
    /\ lastOutcome.outcome.kind = "failure"
    /\ lastOutcome.outcome.status = 403
    /\ pc = "thrown"
    /\ error.status = 403
    /\ quotaState.status = "error"

----------------------------------------------------------------------------
(* C16 *)

\* the body index of a logged request
BodyIndexOf(request) == CHOOSE b \in 0..(Len(RequestBodies) - 1) : RequestBodies[b + 1] = request.body

\* the requests go through the urls in order and, on each url, through the bodies in
\* order from the first
InUrlThenBodyOrder ==
    /\ requestLog # <<>> => requestLog[1] = [url |-> 1, body |-> RequestBodies[1]]
    /\ \A i \in 1..(Len(requestLog) - 1) :
          \/ /\ requestLog[i + 1].url = requestLog[i].url
             /\ BodyIndexOf(requestLog[i + 1]) = BodyIndexOf(requestLog[i]) + 1
          \/ /\ requestLog[i + 1].url = requestLog[i].url + 1
             /\ BodyIndexOf(requestLog[i + 1]) = 0

\* a request is outstanding exactly while the fetch awaits it, and never two
OneAtATime ==
    IF pc = "awaiting"
    THEN Len(requestLog) = Len(statusLog) + 1
    ELSE Len(requestLog) = Len(statusLog)

FetchCalled == Antigravity /\ quotaState.status = "loading" /\ pc = "idle"

\* C16: the requests of one fetchAntigravityQuota call are issued one at a time, each
\* after the previous one completed, in url order and then body order, at most
\* NumUrls x 2 of them; and when every request settles, a fetch that was called
\* returns or throws.
C16_SequentialAndTerminates ==
    /\ [](Antigravity =>
            /\ InUrlThenBodyOrder
            /\ OneAtATime
            /\ Len(requestLog) <= NumUrls * 2)
    /\ (FetchCalled ~> Finished)

\* every url was tried with both bodies and the fetch has ended
C16_Witness ==
    /\ Antigravity
    /\ Finished
    /\ Len(requestLog) = NumUrls * 2
    /\ Len(statusLog) = NumUrls * 2

----------------------------------------------------------------------------
(* C18 *)

\* the latest attempt ended in the catch block: the request rejected, or reading the
\* 2xx payload raised
LastThrew ==
    \/ lastOutcome.outcome.kind = "failure"
    \/ (LastIsOkResponse /\ lastOutcome.outcome.models.type = "throws")

\* C18: after an attempt that ended in a thrown failure, whatever status the failure
\* carries, the next request is the next body on the same url when one is left, and
\* only after the last body the first body of the next url (or none).
C18_FailureKeepsUrl ==
    (Antigravity /\ LastThrew) =>
        IF lastOutcome.body = 0
        THEN NextRequestIs(lastOutcome.url, 1)
        ELSE MovesToNextUrl

C18_Witness ==
    /\ Antigravity
    /\ pc = "awaiting"
    /\ lastOutcome.outcome.kind = "failure"
    /\ lastOutcome.outcome.status = 403
    /\ lastOutcome.url = 1
    /\ lastOutcome.body = 0
    /\ requestLog = <<[url |-> 1, body |-> "projectId"], [url |-> 1, body |-> "project"]>>

----------------------------------------------------------------------------
(* C17 *)

\* the project id each download outcome stands for when only the fields top-level
\* project_id/projectId, installed.project_id and web.project_id are read: the first
\* of them that holds text, the default id for a failed download, an empty or
\* unparsable text, or no such field
ProjectIdAsStated(download) ==
    IF download.kind = "failure" THEN "bamboo-precept-lgxtn"
    ELSE CASE download.text = TextTopLevel -> "proj-1"
           [] download.text = TextTopCamel -> "proj-1"
           [] download.text = TextInstalled -> "proj-1"
           [] download.text = TextWeb -> "proj-1"
           [] OTHER -> "bamboo-precept-lgxtn"

\* the same when installed.projectId and web.projectId are read as well
ExpectedProjectId(download) ==
    IF download.kind = "text" /\ download.text = TextInstalledCamel
    THEN "proj-1"
    ELSE ProjectIdAsStated(download)

\* C17 as stated: the resolution returns the first value found in top-level
\* project_id/projectId, installed.project_id, web.project_id, and the default id
\* when none of those fields holds a value.
C17_AsStated ==
    [][(Antigravity /\ pc = "resolving") =>
          /\ pc' = "resolved"
          /\ resolution' = ProjectIdAsStated(credential)]_vars

\* C17 (amended): whatever the download settled with, the resolution returns, with
\* the first project id found in the order top level, installed, web (each section
\* read as project_id, then projectId), or else the default id, and the fetch goes on
\* to its requests; a fetch that started the download never throws before it has
\* issued a request.
C17_ResolutionNeverFails ==
    /\ [][(Antigravity /\ pc = "resolving") =>
            /\ pc' = "resolved"
            /\ resolution' = ExpectedProjectId(credential)
            /\ error' = NoError]_vars
    /\ [][(Antigravity /\ pc = "resolved") =>
            /\ pc' = "sending"
            /\ projectId' = resolution
            /\ error' = NoError]_vars
    /\ [](Antigravity =>
            /\ pc = "resolving" => credential \in Downloads
            /\ (pc = "thrown" /\ downloadLog # <<>>) => requestLog # <<>>
            /\ requestLog # <<>> => downloadLog = <<file.name>>)

C17_Witness ==
    /\ Antigravity
    /\ pc = "awaiting"
    /\ projectId = "proj-1"
    /\ downloadLog = <<"antigravity-a.json">>
    /\ Len(requestLog) = 1

----------------------------------------------------------------------------
(* C14 *)

ProviderMappings ==
    {"antigravityQuota", "codexQuota", "geminiCliQuota", "kiroQuota", "githubCopilotQuota"}

\* C14: the state that follows a call of clearQuotaCache has every provider mapping
\* empty, whatever the store held before; no state in between is ever there to see.
C14_ClearEmptiesEveryMapping ==
    lastCall.op = "clear" => \A f \in ProviderMappings : DOMAIN store[f] = {}

\* a clear that found entries in two mappings, kiroQuota among them
C14_Witness ==
    /\ lastCall.op = "clear"
    /\ DOMAIN lastCall.before.kiroQuota # {}
    /\ DOMAIN lastCall.before.codexQuota # {}
    /\ \A f \in ProviderMappings : DOMAIN store[f] = {}

----------------------------------------------------------------------------
(* C15 *)

\* the mapping a setter writes
MappingOf(setter) ==
    CASE setter = "setAntigravityQuota" -> "antigravityQuota"
      [] setter = "setCodexQuota" -> "codexQuota"
      [] setter = "setGeminiCliQuota" -> "geminiCliQuota"
      [] setter = "setKiroQuota" -> "kiroQuota"
      [] setter = "setGithubCopilotQuota" -> "githubCopilotQuota"

\* this step is a setter call in which a fetch writes its state under its key
FetchWrites == lastCall'.op = "set" /\ lastCall'.updater.isFunction /\ calls' = calls + 1

\* C15: in any order of the fetches' writes into a mapping, a write puts the state
\* under its own key and every other key keeps the entry it had: none is removed,
\* altered or added; so each key holds what the last write for that key wrote.
C15_WritesForOtherKeysKept ==
    [][FetchWrites =>
          LET f == MappingOf(lastCall'.setter)
              key == lastCall'.updater.key
          IN  /\ key \in DOMAIN store'[f]
              /\ store'[f][key] = lastCall'.updater.entry
              /\ DOMAIN store'[f] \ {key} = DOMAIN store[f] \ {key}
              /\ \A other \in DOMAIN store[f] \ {key} : store'[f][other] = store[f][other]]_vars

\* two fetches on one mapping: both wrote loading, then the first wrote its result
C15_Witness ==
    /\ calls = 3
    /\ lastCall = SetterCall("setCodexQuota",
                             [isFunction |-> TRUE, key |-> "a.json",
                              entry |-> [status |-> "success"]])
    /\ DOMAIN store.codexQuota = {"a.json", "b.json"}
    /\ store.codexQuota["a.json"] = [status |-> "success"]
    /\ store.codexQuota["b.json"] = [status |-> "loading"]

----------------------------------------------------------------------------
(* C19 *)

\* this step is a call of a setter
SetterCalled == lastCall'.op = "set" /\ calls' = calls + 1

\* C19: a setter call changes the setter's own mapping only; with a function updater
\* the new mapping is the function's value on the mapping the store held when the
\* call was made, with a plain value it is that value.
C19_SetterWritesOwnMappingOnly ==
    [][SetterCalled =>
          LET f == MappingOf(lastCall'.setter)
              u == lastCall'.updater
          IN  /\ \A g \in ProviderMappings \ {f} : store'[g] = store[g]
              /\ DOMAIN store' = ProviderMappings
              /\ IF u.isFunction
                 THEN store'[f] = [k \in DOMAIN store[f] \cup {u.key} |->
                                      IF k = u.key THEN u.entry ELSE store[f][k]]
                 ELSE store'[f] = u.value]_vars

\* kiroQuota replaced by a plain value while two other mappings hold entries
C19_Witness ==
    /\ lastCall.op = "set"
    /\ lastCall.setter = "setKiroQuota"
    /\ ~lastCall.updater.isFunction
    /\ store.kiroQuota = lastCall.updater.value
    /\ DOMAIN store.kiroQuota # {}
    /\ DOMAIN store.codexQuota = {"b.json"}
    /\ DOMAIN store.githubCopilotQuota = {"a.json"}

====
